---- MODULE Spec2Model ----
(***************************************************************************)
(* Rules and move-execution core of the ludo-square game engine            *)
(* (packages/game-engine): MoveExecutor, RulesEngine, ActionHandler.       *)
(*                                                                         *)
(* A GameState is a record                                                 *)
(*   [config, players, currentPlayerIndex, board, status, winner,          *)
(*    consecutiveSixes]                                                    *)
(* players is the ordered player list (a sequence, so the code's index i   *)
(* is players[i+1]); board maps each ring index 0..51 to the ordered list  *)
(* of token ids standing on it; an absent winner / capturedTokenId         *)
(* (undefined in the code) is the string "none".                           *)
(***************************************************************************)
EXTENDS Integers, Sequences, FiniteSets, TLC

\* ------------------------------------------------------------------------
\* Program constants
\* ------------------------------------------------------------------------
BoardSize == 52
FinishedPosition == 99
HomePosition == -1
TokensPerPlayer == 4
NoToken == "none"

Ring == 0 .. (BoardSize - 1)

\* ------------------------------------------------------------------------
\* Bounds of the model
\* ------------------------------------------------------------------------
\* longest move list of a submitted TurnMove
MaxTurnLen == 2
\* number of mutating calls (executeMove / executeTurnMove) in one run
MaxExec == 1
\* longest list of player configs handed to createGame
MaxPlayers == 2

\* longest run of validated turns played one after another
MaxTurns == 2

\* ------------------------------------------------------------------------
\* Small sequence helpers (Array.prototype.indexOf / splice / includes)
\* ------------------------------------------------------------------------
indexOf(s, x) ==
  IF \E i \in 1 .. Len(s) : s[i] = x
  THEN CHOOSE i \in 1 .. Len(s) : s[i] = x /\ \A j \in 1 .. (i - 1) : s[j] # x
  ELSE 0

\* const i = a.indexOf(x); if (i > -1) a.splice(i, 1)
removeFirst(s, x) ==
  LET i == indexOf(s, x)
  IN  IF i = 0 THEN s
      ELSE [k \in 1 .. (Len(s) - 1) |-> IF k < i THEN s[k] ELSE s[k + 1]]

includes(s, x) == \E i \in 1 .. Len(s) : s[i] = x

Colors == {"red", "blue", "green", "yellow"}

\* ------------------------------------------------------------------------
\* MoveExecutor: position arithmetic
\* ------------------------------------------------------------------------
getStartingPosition(color) ==
  CASE color = "red" -> 0
    [] color = "blue" -> 13
    [] color = "green" -> 26
    [] color = "yellow" -> 39
    [] OTHER -> 0

getHomeColumnStart(color) ==
  CASE color = "red" -> 52
    [] color = "blue" -> 58
    [] color = "green" -> 64
    [] color = "yellow" -> 70
    [] OTHER -> 52

getHomeColumnEntry(color) ==
  CASE color = "red" -> 51
    [] color = "blue" -> 12
    [] color = "green" -> 25
    [] color = "yellow" -> 38
    [] OTHER -> 51

\* ring movement that forgets to wrap at the end of the ring
calculateNewPositionNoWrap(currentPosition, steps, color) ==
  IF currentPosition = HomePosition THEN getStartingPosition(color)
  ELSE IF currentPosition >= getHomeColumnStart(color) THEN currentPosition + steps
  ELSE LET newPosition == currentPosition + steps
           homeEntry == getHomeColumnEntry(color)
       IN  IF currentPosition <= homeEntry /\ newPosition > homeEntry
           THEN getHomeColumnStart(color) + (newPosition - homeEntry - 1)
           ELSE newPosition

calculateNewPosition(currentPosition, steps, color) ==
  IF currentPosition = HomePosition THEN getStartingPosition(color)
  ELSE IF currentPosition >= getHomeColumnStart(color) THEN currentPosition + steps
  ELSE LET newPosition == (currentPosition + steps) % BoardSize
           homeEntry == getHomeColumnEntry(color)
       IN  IF currentPosition <= homeEntry /\ newPosition > homeEntry
           THEN getHomeColumnStart(color) + (newPosition - homeEntry - 1)
           ELSE newPosition

\* a finish test that takes the column for one square longer
hasTokenFinishedLate(position, color) == position > getHomeColumnStart(color) + 6

hasTokenFinished(position, color) == position > getHomeColumnStart(color) + 5

\* ------------------------------------------------------------------------
\* Lookups (Array.prototype.find returns the first match; 0 = undefined)
\* ------------------------------------------------------------------------
findPlayer(gameState, playerId) ==
  LET ps == gameState.players
  IN  IF \E i \in 1 .. Len(ps) : ps[i].id = playerId
      THEN CHOOSE i \in 1 .. Len(ps) :
             ps[i].id = playerId /\ \A j \in 1 .. (i - 1) : ps[j].id # playerId
      ELSE 0

findToken(player, tokenId) ==
  LET ts == player.tokens
  IN  IF \E i \in 1 .. Len(ts) : ts[i].id = tokenId
      THEN CHOOSE i \in 1 .. Len(ts) :
             ts[i].id = tokenId /\ \A j \in 1 .. (i - 1) : ts[j].id # tokenId
      ELSE 0

\* <<player index, token index>> of the first token with that id, or <<0, 0>>
findTokenById(gameState, tokenId) ==
  LET ps == gameState.players
      hit == {i \in 1 .. Len(ps) : findToken(ps[i], tokenId) # 0}
  IN  IF hit = {} THEN <<0, 0>>
      ELSE LET i == CHOOSE k \in hit : \A j \in hit : k <= j
           IN  <<i, findToken(ps[i], tokenId)>>

tokenAt(gameState, loc) == gameState.players[loc[1]].tokens[loc[2]]

getPlayerColor(gameState, playerId) ==
  LET i == findPlayer(gameState, playerId)
  IN  IF i = 0 THEN "red" ELSE gameState.players[i].color

\* a capture that takes the first occupant, whoever holds it
firstOccupant(gameState, occupants, playerId) ==
  IF Len(occupants) = 0 THEN NoToken ELSE occupants[1]

\* first occupant (in list order) that resolves to a token of another player
firstOpposing(gameState, occupants, playerId) ==
  LET opp == {i \in 1 .. Len(occupants) :
                LET loc == findTokenById(gameState, occupants[i])
                IN  loc[1] # 0 /\ tokenAt(gameState, loc).playerId # playerId}
  IN  IF opp = {} THEN NoToken
      ELSE occupants[CHOOSE k \in opp : \A j \in opp : k <= j]

\* ------------------------------------------------------------------------
\* MoveExecutor.executeMove
\* ------------------------------------------------------------------------
setToken(gameState, loc, position, state) ==
  [gameState EXCEPT !.players[loc[1]].tokens[loc[2]].position = position,
                    !.players[loc[1]].tokens[loc[2]].state = state]

\* a capture block that moves the victim Home without resetting its state
captureAtKeepingState(gameState, newPosition, victimId) ==
  LET loc == findTokenById(gameState, victimId)
      sent == setToken(gameState, loc, HomePosition, tokenAt(gameState, loc).state)
  IN  [sent EXCEPT !.board[newPosition] = removeFirst(@, victimId)]

\* an earlier capture block: every token of the victim's player on the
\* square goes Home and the square is cleared
captureAllAt(gameState, newPosition, victimId) ==
  LET owner == tokenAt(gameState, findTokenById(gameState, victimId)).playerId
      hit(token) == token.playerId = owner
                    /\ includes(gameState.board[newPosition], token.id)
  IN  [gameState EXCEPT
         !.players = [i \in DOMAIN @ |->
                        [@[i] EXCEPT !.tokens =
                           [k \in DOMAIN @ |->
                              IF hit(@[k])
                              THEN [@[k] EXCEPT !.position = HomePosition,
                                                !.state = "home"]
                              ELSE @[k]]]],
         !.board[newPosition] = <<>>]

\* the capture block: the first opposing occupant of board[newPosition] goes
\* Home and is spliced out of the square
captureAt(gameState, newPosition, victimId) ==
  LET loc == findTokenById(gameState, victimId)
      sent == setToken(gameState, loc, HomePosition, "home")
  IN  [sent EXCEPT !.board[newPosition] = removeFirst(@, victimId)]

\* an earlier ActionHandler.executeMove threw on a failed lookup
executeMoveThrowing(gameState, move) ==
  [gameState |-> gameState, captured |-> FALSE, capturedTokenId |-> NoToken,
   threw |-> TRUE]

executeMoveNotFound(gameState, move) ==
  [gameState |-> gameState, captured |-> FALSE, capturedTokenId |-> NoToken,
   threw |-> FALSE]

\* lines 24-43: the token captured by landing on newPosition, if any
victimAt(gameState, newPosition, playerId) ==
  IF newPosition < BoardSize /\ Len(gameState.board[newPosition]) > 0
  THEN firstOpposing(gameState, gameState.board[newPosition], playerId)
  ELSE NoToken

\* a mover that is never taken off its old square
leaveSquareNot(gameState, token) == gameState

\* lines 46-52: remove the mover from its old ring square
leaveSquare(gameState, token) ==
  IF token.position >= 0 /\ token.position < BoardSize
  THEN [gameState EXCEPT !.board[token.position] = removeFirst(@, token.id)]
  ELSE gameState

\* a placement that sends every capturing token to the finish
placeMoverFinishing(gameState, loc, token, color, newPosition, captured) ==
  IF captured
    THEN setToken(gameState, loc, FinishedPosition, "finished")
  ELSE IF hasTokenFinished(newPosition, color)
    THEN setToken(gameState, loc, FinishedPosition, "finished")
  ELSE IF newPosition >= BoardSize
    THEN setToken(gameState, loc, newPosition, "home-column")
  ELSE [setToken(gameState, loc, newPosition,
                 IF token.position = HomePosition THEN "in-play" ELSE token.state)
          EXCEPT !.board[newPosition] = Append(@, token.id)]

\* a placement that never sends the capturing token to the finish
placeMoverStaying(gameState, loc, token, color, newPosition, captured) ==
  IF hasTokenFinished(newPosition, color)
    THEN setToken(gameState, loc, FinishedPosition, "finished")
  ELSE IF newPosition >= BoardSize
    THEN setToken(gameState, loc, newPosition, "home-column")
  ELSE [setToken(gameState, loc, newPosition,
                 IF token.position = HomePosition THEN "in-play" ELSE token.state)
          EXCEPT !.board[newPosition] = Append(@, token.id)]

\* lines 55-79: where the mover ends up.  Leaving Home sets in-play; a ring
\* move keeps the token's state
placeMover(gameState, loc, token, color, newPosition, captured) ==
  IF captured /\ gameState.config.captureMode = "finish"
    THEN setToken(gameState, loc, FinishedPosition, "finished")
  ELSE IF hasTokenFinished(newPosition, color)
    THEN setToken(gameState, loc, FinishedPosition, "finished")
  ELSE IF newPosition >= BoardSize
    THEN setToken(gameState, loc, newPosition, "home-column")
  ELSE [setToken(gameState, loc, newPosition,
                 IF token.position = HomePosition THEN "in-play" ELSE token.state)
          EXCEPT !.board[newPosition] = Append(@, token.id)]

\* lines 24-81 once the victim is known
executeMoveCapturing(gameState, move, loc, token, color, newPosition, victim) ==
  [gameState |->
     placeMover(
       leaveSquare(IF victim # NoToken
                   THEN captureAt(gameState, newPosition, victim)
                   ELSE gameState,
                   token),
       loc, token, color, newPosition, victim # NoToken),
   captured |-> victim # NoToken,
   capturedTokenId |-> victim,
   threw |-> FALSE]

\* lines 18-81 once player and token are found
executeMoveTo(gameState, move, loc, token, color, newPosition) ==
  executeMoveCapturing(gameState, move, loc, token, color, newPosition,
                       victimAt(gameState, newPosition, move.playerId))

\* lines 15-81 once the player is found
executeMoveOfPlayer(gameState, move, pi, ti) ==
  IF ti = 0 THEN executeMoveNotFound(gameState, move)
  ELSE executeMoveTo(gameState, move, <<pi, ti>>,
                     gameState.players[pi].tokens[ti],
                     gameState.players[pi].color,
                     calculateNewPosition(gameState.players[pi].tokens[ti].position,
                                          move.steps, gameState.players[pi].color))

executeMoveLookup(gameState, move, pi) ==
  IF pi = 0 THEN executeMoveNotFound(gameState, move)
  ELSE executeMoveOfPlayer(gameState, move, pi,
                           findToken(gameState.players[pi], move.tokenId))

executeMove(gameState, move) ==
  executeMoveLookup(gameState, move, findPlayer(gameState, move.playerId))

\* ------------------------------------------------------------------------
\* RulesEngine: safe squares and the single-move legality predicate
\* ------------------------------------------------------------------------
getSafePositions(color) ==
  CASE color = "red" -> <<8>>
    [] color = "blue" -> <<21>>
    [] color = "green" -> <<34>>
    [] color = "yellow" -> <<47>>
    [] OTHER -> <<>>

isSafeSquareForColor(position, color, gameConfig) ==
  LET isStartingSquareSafe ==
        gameConfig.safeStartingSquares /\ position = getStartingPosition(color)
      isRegularSafeSquare == includes(getSafePositions(color), position)
  IN  isStartingSquareSafe \/ isRegularSafeSquare

\* a legality check that never sees an own token on the destination
ownTokenOnNever(gameState, occupants, playerId) == FALSE

\* some occupant of the square is a token of the moving player
ownTokenOn(gameState, occupants, playerId) ==
  \E i \in 1 .. Len(occupants) :
    LET loc == findTokenById(gameState, occupants[i])
    IN  loc[1] # 0 /\ tokenAt(gameState, loc).playerId = playerId

\* a legality check that knows no safe square
safeOpponentOnNever(gameState, occupants, position, playerId) == FALSE

\* some occupant is an opponent standing on a square that is safe for its color
safeOpponentOn(gameState, occupants, position, playerId) ==
  \E i \in 1 .. Len(occupants) :
    LET loc == findTokenById(gameState, occupants[i])
    IN  /\ loc[1] # 0
        /\ tokenAt(gameState, loc).playerId # playerId
        /\ isSafeSquareForColor(position,
             getPlayerColor(gameState, tokenAt(gameState, loc).playerId),
             gameState.config)

\* the step check of isValidMove: if (move.steps !== diceRoll.sum) return false
stepsMatchRoll(move, diceRoll) == move.steps = diceRoll.sum

\* lines 513-531: a token leaving Home.  Only the first occupant of the
\* start square is looked at
homeExitAllowed(gameState, move, diceRoll, color) ==
  IF ~diceRoll.hasValidSix THEN FALSE
  ELSE LET occupyingTokenIds == gameState.board[getStartingPosition(color)]
       IN  IF /\ Len(occupyingTokenIds) > 0
              /\ ~gameState.config.allowTokenStacking
              /\ LET loc == findTokenById(gameState, occupyingTokenIds[1])
                 IN  loc[1] # 0 /\ tokenAt(gameState, loc).playerId = move.playerId
           THEN FALSE
           ELSE TRUE

\* lines 539-580: the checks on the square the token would land on
landingAllowed(gameState, move, token, color, newPosition) ==
  IF token.state = "home-column" /\ newPosition > getHomeColumnStart(color) + 5 + 1
    THEN FALSE
  ELSE IF /\ newPosition < BoardSize
          /\ Len(gameState.board[newPosition]) > 0
          /\ ~gameState.config.allowTokenStacking
          /\ ownTokenOn(gameState, gameState.board[newPosition], move.playerId)
    THEN FALSE
  ELSE IF /\ newPosition < BoardSize
          /\ Len(gameState.board[newPosition]) > 0
          /\ safeOpponentOn(gameState, gameState.board[newPosition], newPosition,
                            move.playerId)
    THEN FALSE
  ELSE TRUE

\* a legality check that lets finished tokens move
isValidMoveOfTokenFinishedToo(gameState, move, diceRoll, token, color) ==
  IF ~stepsMatchRoll(move, diceRoll) THEN FALSE
  ELSE IF token.position = HomePosition
    THEN homeExitAllowed(gameState, move, diceRoll, color)
  ELSE landingAllowed(gameState, move, token, color,
                      calculateNewPosition(token.position, move.steps, color))

\* lines 509-580 once player and token are found
isValidMoveOfToken(gameState, move, diceRoll, token, color) ==
  IF ~stepsMatchRoll(move, diceRoll) THEN FALSE
  ELSE IF token.position = HomePosition
    THEN homeExitAllowed(gameState, move, diceRoll, color)
  ELSE IF token.state = "finished" THEN FALSE
  ELSE landingAllowed(gameState, move, token, color,
                      calculateNewPosition(token.position, move.steps, color))

isValidMoveOfPlayer(gameState, move, diceRoll, pi, ti) ==
  IF ti = 0 THEN FALSE
  ELSE isValidMoveOfToken(gameState, move, diceRoll,
                          gameState.players[pi].tokens[ti],
                          gameState.players[pi].color)

isValidMoveLookup(gameState, move, diceRoll, pi) ==
  IF pi = 0 THEN FALSE
  ELSE isValidMoveOfPlayer(gameState, move, diceRoll, pi,
                           findToken(gameState.players[pi], move.tokenId))

isValidMove(gameState, move, diceRoll) ==
  isValidMoveLookup(gameState, move, diceRoll,
                    findPlayer(gameState, move.playerId))

\* the DiceRoll the RulesEngine builds for one die of a turn
singleDieRoll(dieValue) ==
  [values |-> <<dieValue>>, sum |-> dieValue, canMoveAgain |-> FALSE,
   hasValidSix |-> (dieValue = 6)]

\* ------------------------------------------------------------------------
\* Simulation on a scratch copy.
\* A simulation works on two references: the caller's GameState and the
\* object the simulated moves are applied to.  JSON.parse(JSON.stringify(g))
\* yields a value-equal object that shares nothing with g (GameState is plain
\* data: numbers, strings, booleans, arrays), so shared = FALSE and a write
\* to the simulated object never reaches the caller's.
\* ------------------------------------------------------------------------
\* let simulated = gameState (no copy): both references name one object
aliasClone(gameState) ==
  [caller |-> gameState, simulated |-> gameState, shared |-> TRUE]

deepClone(gameState) ==
  [caller |-> gameState, simulated |-> gameState, shared |-> FALSE]

\* write through the simulated reference
writeSimulated(objs, g) ==
  IF objs.shared THEN [objs EXCEPT !.caller = g, !.simulated = g]
  ELSE [objs EXCEPT !.simulated = g]

\* rules-engine.ts of an earlier revision: position only, no capture, no board
applyMoveSimple(objs, move) ==
  LET g == objs.simulated
      pi == findPlayer(g, move.playerId)
  IN  IF pi = 0 THEN objs
      ELSE LET ti == findToken(g.players[pi], move.tokenId)
           IN  IF ti = 0 THEN objs
               ELSE LET token == g.players[pi].tokens[ti]
                        color == g.players[pi].color
                    IN  writeSimulated(objs,
                          IF token.position = HomePosition
                          THEN setToken(g, <<pi, ti>>, getStartingPosition(color), "in-play")
                          ELSE setToken(g, <<pi, ti>>,
                                 (token.position + move.steps) % BoardSize, token.state))

\* a replay that checks every move against the state before the turn
applyMoveSkipped(objs, move) == objs

\* RulesEngine.applyMoveToGameState: this.moveExecutor.executeMove(gameState, move)
applyMoveToGameState(objs, move) ==
  writeSimulated(objs, executeMove(objs.simulated, move).gameState)

individualMove(playerId, tokenId, steps) ==
  [playerId |-> playerId, tokenId |-> tokenId, steps |-> steps]

\* ------------------------------------------------------------------------
\* RulesEngine.getAllValidMoveCombinations / generateMoveCombinations
\* Both return [combinations, gameState]: the combinations pushed, in push
\* order, and the state of the object passed as gameState after the call.
\* ------------------------------------------------------------------------
RECURSIVE generateMoveCombinations(_, _, _, _, _)
RECURSIVE tryTokens(_, _, _, _, _, _, _, _)

\* a search that gives up on a die no token can use
skipDieStopping(pushed, skip) ==
  [combinations |-> pushed, gameState |-> skip.gameState]

\* lines 853-856: no token could use the die, so the search goes on without it
skipDie(pushed, skip) ==
  [combinations |-> pushed \o skip.combinations, gameState |-> skip.gameState]

\* what the caller's object is after the branch under objs has been searched
branchOutcome(objs, rec) ==
  [combinations |-> rec.combinations,
   gameState |-> writeSimulated(objs, rec.gameState).caller]

\* lines 837-849: the branch under one legal move, searched on the copy the
\* move was applied to
exploreBranch(objs, player, diceValues, newCombination, dieIndex) ==
  branchOutcome(objs,
                generateMoveCombinations(objs.simulated, player, diceValues,
                                         newCombination, dieIndex + 1))

\* a search that forgets a legal move was found and also tries without the die
afterBranchForgetting(branch, player, diceValues, currentCombination, dieIndex, k, pushed) ==
  tryTokens(branch.gameState, player, diceValues, currentCombination, dieIndex,
            k + 1, FALSE, pushed \o branch.combinations)

\* the loop goes on with the next token after a branch was searched
afterBranch(branch, player, diceValues, currentCombination, dieIndex, k, pushed) ==
  tryTokens(branch.gameState, player, diceValues, currentCombination, dieIndex,
            k + 1, TRUE, pushed \o branch.combinations)

\* lines 820-851: one iteration of `for (const token of player.tokens)`
tryToken(gameState, player, diceValues, currentCombination, dieIndex, k, validMoveFound, pushed, move) ==
  IF isValidMove(gameState, move, singleDieRoll(move.steps))
  THEN afterBranch(
         exploreBranch(applyMoveToGameState(deepClone(gameState), move),
                       player, diceValues,
                       Append(currentCombination,
                              [tokenId |-> move.tokenId, steps |-> move.steps,
                               dieIndex |-> dieIndex]),
                       dieIndex),
         player, diceValues, currentCombination, dieIndex, k, pushed)
  ELSE tryTokens(gameState, player, diceValues, currentCombination, dieIndex,
                 k + 1, validMoveFound, pushed)

\* the body of `for (const token of player.tokens)` from token k on
tryTokens(gameState, player, diceValues, currentCombination, dieIndex, k, validMoveFound, pushed) ==
  IF k > Len(player.tokens)
  THEN IF ~validMoveFound
       THEN skipDie(pushed,
                    generateMoveCombinations(gameState, player, diceValues,
                                             currentCombination, dieIndex + 1))
       ELSE [combinations |-> pushed, gameState |-> gameState]
  ELSE tryToken(gameState, player, diceValues, currentCombination, dieIndex, k,
                validMoveFound, pushed,
                individualMove(player.id, player.tokens[k].id,
                               diceValues[dieIndex + 1]))

generateMoveCombinations(gameState, player, diceValues, currentCombination, dieIndex) ==
  IF dieIndex >= Len(diceValues)
  THEN [combinations |-> IF Len(currentCombination) > 0
                         THEN <<currentCombination>> ELSE <<>>,
        gameState |-> gameState]
  ELSE tryTokens(gameState, player, diceValues, currentCombination, dieIndex,
                 1, FALSE, <<>>)

getAllValidMoveCombinations(gameState, playerId, diceValues) ==
  LET pi == findPlayer(gameState, playerId)
  IN  IF pi = 0 THEN [combinations |-> <<>>, gameState |-> gameState]
      ELSE generateMoveCombinations(gameState, gameState.players[pi],
                                    diceValues, <<>>, 0)

hasFullUsageCombination(combinations, diceValues) ==
  \E i \in 1 .. Len(combinations) : Len(combinations[i]) = Len(diceValues)

\* ------------------------------------------------------------------------
\* RulesEngine.validateTurnMove
\* Returns [result, gameState, simulated]: the boolean, the caller's
\* GameState after the call, and the scratch state the replay reached.
\* ------------------------------------------------------------------------
\* an empty-turn check that looks at the first die only
anyDieUsableFirstDie(gameState, player, playerId, diceValues) ==
  \E k \in 1 .. Len(player.tokens) :
    isValidMove(gameState,
                individualMove(playerId, player.tokens[k].id, diceValues[1]),
                singleDieRoll(diceValues[1]))

\* the empty-move-list branch: some die can be used by some token
anyDieUsable(gameState, player, playerId, diceValues) ==
  \E d \in 1 .. Len(diceValues) : \E k \in 1 .. Len(player.tokens) :
    isValidMove(gameState,
                individualMove(playerId, player.tokens[k].id, diceValues[d]),
                singleDieRoll(diceValues[d]))

\* a validator for which an empty turn is always a legal pass
validateEmptyTurnLax(gameState, turnMove) == TRUE

validateEmptyTurn(gameState, turnMove) ==
  IF gameState.config.enforceFullDiceUsage
  THEN LET pi == findPlayer(gameState, turnMove.playerId)
       IN  IF pi = 0 THEN FALSE
           ELSE ~anyDieUsable(gameState, gameState.players[pi],
                              turnMove.playerId, turnMove.diceValues)
  ELSE TRUE

usedDiceIndices(moves) == [i \in 1 .. Len(moves) |-> moves[i].dieIndex]

allDiceUsed(turnMove) ==
  \A index \in 0 .. (Len(turnMove.diceValues) - 1) :
    includes(usedDiceIndices(turnMove.moves), index)

\* the per-move checks made before isValidMove
dieIndexInRange(m, diceValues) == ~(m.dieIndex < 0 \/ m.dieIndex >= Len(diceValues))

stepsMatchDie(m, diceValues) == m.steps = diceValues[m.dieIndex + 1]

\* a replay that trusts the submitted dieIndex / steps
dieChecksSkipped(m, diceValues) == TRUE

dieChecks(m, diceValues) ==
  dieIndexInRange(m, diceValues) /\ stepsMatchDie(m, diceValues)

RECURSIVE replayMoves(_, _, _)
\* `for (const move of moves)` from move i on; [ok, objs]
replayMoves(objs, turnMove, i) ==
  IF i > Len(turnMove.moves) THEN [ok |-> TRUE, objs |-> objs]
  ELSE
  LET m == turnMove.moves[i]
      mv == individualMove(turnMove.playerId, m.tokenId, m.steps)
  IN  IF ~dieChecks(m, turnMove.diceValues) THEN [ok |-> FALSE, objs |-> objs]
      ELSE IF ~isValidMove(objs.simulated, mv, singleDieRoll(m.steps))
        THEN [ok |-> FALSE, objs |-> objs]
      ELSE replayMoves(applyMoveToGameState(objs, mv), turnMove, i + 1)

\* a gate that turns an incomplete turn down whenever any combination exists
gateVerdictAny(all, diceValues) ==
  [rejects |-> Len(all.combinations) > 0, gameState |-> all.gameState]

\* lines 738-742: the verdict once the combinations are known
gateVerdict(all, diceValues) ==
  [rejects |-> hasFullUsageCombination(all.combinations, diceValues),
   gameState |-> all.gameState]

\* a validator without the all-or-nothing gate
fullUsageGateOff(gameState, turnMove) ==
  [rejects |-> FALSE, gameState |-> gameState]

\* `if (!allDiceUsed && enforceFullDiceUsage)`: [rejects, gameState]
fullUsageGate(gameState, turnMove) ==
  IF ~allDiceUsed(turnMove) /\ gameState.config.enforceFullDiceUsage
  THEN gateVerdict(getAllValidMoveCombinations(gameState, turnMove.playerId,
                                               turnMove.diceValues),
                   turnMove.diceValues)
  ELSE [rejects |-> FALSE, gameState |-> gameState]

\* lines 745-780: the replay has run
replayVerdict(run) ==
  [result |-> run.ok, gameState |-> run.objs.caller,
   simulated |-> run.objs.simulated]

\* lines 740-780: the gate has been evaluated
validateGated(gate, turnMove) ==
  IF gate.rejects
  THEN [result |-> FALSE, gameState |-> gate.gameState, simulated |-> gate.gameState]
  ELSE replayVerdict(replayMoves(deepClone(gate.gameState), turnMove, 1))

validateTurnMove(gameState, turnMove) ==
  IF Len(turnMove.moves) = 0
  THEN [result |-> validateEmptyTurn(gameState, turnMove),
        gameState |-> gameState, simulated |-> gameState]
  ELSE validateGated(fullUsageGate(gameState, turnMove), turnMove)

\* ------------------------------------------------------------------------
\* ActionHandler.executeTurnMove / getValidTurnMoves
\* ------------------------------------------------------------------------
\* lines 70-78: one executeMove result folded into the totals
recordMove(acc, r) ==
  [gameState |-> r.gameState,
   captured |-> acc.captured \/ r.captured,
   capturedTokenIds |-> IF r.captured /\ r.capturedTokenId # NoToken
                        THEN Append(acc.capturedTokenIds, r.capturedTokenId)
                        ELSE acc.capturedTokenIds,
   movesExecuted |-> acc.movesExecuted + 1]

RECURSIVE executeMovesFrom(_, _, _, _)
\* `for (const moveData of turnMove.moves)` from move i on
executeMovesFrom(acc, playerId, moves, i) ==
  IF i > Len(moves) THEN acc
  ELSE executeMovesFrom(
         recordMove(acc,
                    executeMove(acc.gameState,
                                individualMove(playerId, moves[i].tokenId,
                                               moves[i].steps))),
         playerId, moves, i + 1)

executeTurnMove(gameState, turnMove) ==
  executeMovesFrom([gameState |-> gameState, captured |-> FALSE,
                    capturedTokenIds |-> <<>>, movesExecuted |-> 0],
                   turnMove.playerId, turnMove.moves, 1)

RECURSIVE filterValid(_, _, _, _, _, _)

\* a filter that keeps every combination, whatever the validator said
keepAlways(v, turnMove, playerId, diceValues, combinations, i, kept) ==
  filterValid(v.gameState, playerId, diceValues, combinations, i + 1,
              Append(kept, turnMove))

\* lines 98-100: the combination has been validated
keepIfValid(v, turnMove, playerId, diceValues, combinations, i, kept) ==
  filterValid(v.gameState, playerId, diceValues, combinations, i + 1,
              IF v.result THEN Append(kept, turnMove) ELSE kept)

\* lines 92-100: one iteration on the TurnMove built from a combination
checkCombination(gameState, turnMove, playerId, diceValues, combinations, i, kept) ==
  keepIfValid(validateTurnMove(gameState, turnMove), turnMove, playerId,
              diceValues, combinations, i, kept)

\* `for (const combination of allCombinations)`; [turnMoves, gameState]
filterValid(gameState, playerId, diceValues, combinations, i, kept) ==
  IF i > Len(combinations) THEN [turnMoves |-> kept, gameState |-> gameState]
  ELSE checkCombination(gameState,
                        [playerId |-> playerId, moves |-> combinations[i],
                         diceValues |-> diceValues],
                        playerId, diceValues, combinations, i, kept)

\* lines 91-103 once the combinations are known
filterCombinations(all, playerId, diceValues) ==
  filterValid(all.gameState, playerId, diceValues, all.combinations, 1, <<>>)

getValidTurnMoves(gameState, playerId, diceValues) ==
  filterCombinations(getAllValidMoveCombinations(gameState, playerId, diceValues),
                     playerId, diceValues)

\* ------------------------------------------------------------------------
\* The states a game can be in when a turn is played.
\* A placement lists, for the two players, where each of the 4 tokens is:
\*   -1 Home, 99 Finished, 100+j slot j of the token's own home column,
\*   0..51 a ring square given as an offset from the first player's start
\*   square (so the same geometry is tried for every color).
\* movers are the tokens of the first player the turn is about, rolls the
\* dice tried, safeStart the values of safeStartingSquares tried: the flag
\* is read only for an opponent standing on its own start square.
\* ------------------------------------------------------------------------
PlayerIds == <<"player1", "player2">>
GhostPlayer == "nobody"
GhostToken == "no-such-token"

\* createGame: `${playerConfig.id}-token-${i + 1}`
tokenIdOf ==
  [player1 |-> <<"player1-token-1", "player1-token-2", "player1-token-3", "player1-token-4">>,
   player2 |-> <<"player2-token-1", "player2-token-2", "player2-token-3", "player2-token-4">>]

\* the colors of the two players: each color plays first once
ColorPairs == { <<"red", "blue">>, <<"green", "yellow">> }

Configs ==
  [diceMode : {"double"}, captureMode : {"stay", "finish"},
   maxConsecutiveSixes : {3}, safeStartingSquares : BOOLEAN,
   allowTokenStacking : BOOLEAN, enforceFullDiceUsage : BOOLEAN]

Placements ==
  { [name |-> "fresh",      p1 |-> <<-1, -1, -1, -1>>,   p2 |-> <<-1, -1, -1, -1>>,
     movers |-> {1, 2},     rolls |-> {<<1, 6>>, <<6, 3>>, <<1, 3>>},
     safeStart |-> {TRUE}],
    [name |-> "spread",     p1 |-> <<-1, 5, 15, 25>>,    p2 |-> <<-1, 10, 20, 30>>,
     movers |-> {2, 3},     rolls |-> {<<2, 3>>},
     safeStart |-> {TRUE}],
    [name |-> "capture",    p1 |-> <<-1, -1, 10, -1>>,   p2 |-> <<14, -1, -1, -1>>,
     movers |-> {1, 3},     rolls |-> {<<5, 4>>},
     safeStart |-> {TRUE}],
    [name |-> "ownStart",   p1 |-> <<-1, 0, 6, 99>>,     p2 |-> <<-1, -1, 20, -1>>,
     movers |-> {1, 2},     rolls |-> {<<6, 1>>, <<6, 6>>},
     safeStart |-> {TRUE}],
    [name |-> "oppOnStart", p1 |-> <<-1, -1, 99, 99>>,   p2 |-> <<0, -1, -1, -1>>,
     movers |-> {1},        rolls |-> {<<6, 2>>, <<6>>},
     safeStart |-> {TRUE}],
    [name |-> "column",     p1 |-> <<103, 99, 99, 99>>,  p2 |-> <<-1, 30, -1, -1>>,
     movers |-> {1},        rolls |-> {<<3, 2>>},
     safeStart |-> {TRUE}],
    [name |-> "nearEntry",  p1 |-> <<50, 47, -1, 99>>,   p2 |-> <<1, -1, -1, -1>>,
     movers |-> {1, 2},     rolls |-> {<<1, 2>>},
     safeStart |-> {TRUE}],
    [name |-> "safe",       p1 |-> <<7, 15, 2, -1>>,     p2 |-> <<13, 21, 8, -1>>,
     movers |-> {1, 2},     rolls |-> {<<6, 1>>},
     safeStart |-> BOOLEAN],
    [name |-> "stack",      p1 |-> <<3, -1, -1, 99>>,    p2 |-> <<5, 5, -1, -1>>,
     movers |-> {1, 2},     rolls |-> {<<2, 2>>, <<2>>},
     safeStart |-> {TRUE}],
    [name |-> "deadEnd",    p1 |-> <<103, 11, 99, 99>>,  p2 |-> <<13, -1, -1, -1>>,
     movers |-> {1, 2},     rolls |-> {<<3, 2>>},
     safeStart |-> {TRUE}] }

\* a token walks into its home column only past its entry square, which the
\* ring arithmetic never does for red (entry 51): red column slots are not
\* states of a game
placementFits(pl, colors) ==
  \A k \in 1 .. TokensPerPlayer :
    /\ (pl.p1[k] >= 100 => colors[1] # "red")
    /\ (pl.p2[k] >= 100 => colors[2] # "red")

positionOf(place, ownColor, firstColor) ==
  IF place = HomePosition \/ place = FinishedPosition THEN place
  ELSE IF place >= 100 THEN getHomeColumnStart(ownColor) + (place - 100)
  ELSE (getStartingPosition(firstColor) + place) % BoardSize

stateOf(place) ==
  IF place = HomePosition THEN "home"
  ELSE IF place = FinishedPosition THEN "finished"
  ELSE IF place >= 100 THEN "home-column"
  ELSE "in-play"

placesOf(pl, i) == IF i = 1 THEN pl.p1 ELSE pl.p2

\* occupants of a ring square, in player order then token order
occupantsOf(pl, colors, square) ==
  LET onSquare(i) ==
        SelectSeq(
          [k \in 1 .. TokensPerPlayer |->
             IF /\ placesOf(pl, i)[k] >= 0
                /\ placesOf(pl, i)[k] < BoardSize
                /\ positionOf(placesOf(pl, i)[k], colors[i], colors[1]) = square
             THEN tokenIdOf[PlayerIds[i]][k] ELSE NoToken],
          LAMBDA t : t # NoToken)
  IN  onSquare(1) \o onSquare(2)

gameStateOf(pl, colors, config) ==
  [config |-> config,
   players |->
     [i \in 1 .. 2 |->
        [id |-> PlayerIds[i], color |-> colors[i],
         status |-> IF i = 1 THEN "active" ELSE "waiting",
         tokens |->
           [k \in 1 .. TokensPerPlayer |->
              [id |-> tokenIdOf[PlayerIds[i]][k], playerId |-> PlayerIds[i],
               position |-> positionOf(placesOf(pl, i)[k], colors[i], colors[1]),
               state |-> stateOf(placesOf(pl, i)[k])]]]],
   currentPlayerIndex |-> 0,
   board |-> [sq \in Ring |-> occupantsOf(pl, colors, sq)],
   status |-> "in-progress",
   winner |-> "none",
   consecutiveSixes |-> 0]

\* ------------------------------------------------------------------------
\* State: the caller's GameState, the dice rolled for the turn, the last
\* call with its arguments and results, and the number of executeMove calls
\* ------------------------------------------------------------------------
VARIABLES gs, dice, movers, last, nexec

vars == <<gs, dice, movers, last, nexec>>

Init ==
  \E pl \in Placements : \E colors \in ColorPairs : \E config \in Configs :
    /\ placementFits(pl, colors)
    /\ config.safeStartingSquares \in pl.safeStart
    /\ gs = gameStateOf(pl, colors, config)
    /\ dice \in pl.rolls
    /\ movers = {tokenIdOf["player1"][k] : k \in pl.movers}
    /\ last = [op |-> "init"]
    /\ nexec = 0

\* ------------------------------------------------------------------------
\* Inputs of the calls
\* ------------------------------------------------------------------------
sumOf(values) == IF Len(values) = 1 THEN values[1] ELSE values[1] + values[2]

\* ActionHandler.rollDice: the DiceRoll built from the drawn values
diceRollOf(values) ==
  [values |-> values,
   sum |-> sumOf(values),
   canMoveAgain |-> IF Len(values) = 1 THEN values[1] = 6
                    ELSE values[1] = 6 /\ values[2] = 6,
   hasValidSix |-> includes(values, 6)]

\* the rolls isValidMove is called with: the roll as drawn, and the
\* one-die rolls the RulesEngine builds from it
RollsOf(values) ==
  {diceRollOf(values)} \cup {singleDieRoll(values[i]) : i \in 1 .. Len(values)}

\* step counts a client may claim for a roll: each die, and their total
StepsOf(values) == {values[i] : i \in 1 .. Len(values)} \cup {sumOf(values)}

AllPlayerIds == {"player1", "player2", GhostPlayer}

\* the token whose malformed entries are tried
someMover == CHOOSE t \in movers : TRUE

\* moves of the first player on the tokens of interest, on a token of the
\* other player and on an unknown token; moves under another player id
MoveInputs(values) ==
  [playerId : {"player1"},
   tokenId : movers \cup {tokenIdOf["player2"][1], GhostToken},
   steps : StepsOf(values)]
  \cup
  [playerId : {"player2", GhostPlayer},
   tokenId : {someMover, tokenIdOf["player2"][1]},
   steps : StepsOf(values)]

\* entries of a submitted turn: each die spent on a token of interest, a die
\* spent on an unknown token, and the malformed entries: the dice total, a die
\* index past the roll, a negative die index, the other die's value
WellFormedEntries(values) ==
  {[tokenId |-> t, steps |-> values[i], dieIndex |-> i - 1] :
     t \in movers, i \in 1 .. Len(values)}

UnknownTokenEntry(values) ==
  [tokenId |-> GhostToken, steps |-> values[1], dieIndex |-> 0]

MalformedEntries(values) ==
  { [tokenId |-> someMover,
     steps |-> sumOf(values) + (IF Len(values) = 1 THEN 1 ELSE 0), dieIndex |-> 0],
    [tokenId |-> someMover, steps |-> values[1], dieIndex |-> Len(values)],
    [tokenId |-> someMover, steps |-> values[1], dieIndex |-> -1],
    [tokenId |-> someMover, steps |-> values[Len(values)], dieIndex |-> 0] }
  \ WellFormedEntries(values)

Entries(values) == WellFormedEntries(values) \cup MalformedEntries(values)

SeqsUpTo(S, n) == UNION {[1 .. k -> S] : k \in 0 .. n}

SubmittedTurns(values) ==
  {[playerId |-> "player1", diceValues |-> values, moves |-> ms] :
     ms \in SeqsUpTo(Entries(values), MaxTurnLen)}
  \cup
  {[playerId |-> pid, diceValues |-> values, moves |-> ms] :
     pid \in {"player2", GhostPlayer}, ms \in SeqsUpTo(WellFormedEntries(values), 1)}
  \cup
  {[playerId |-> "player1", diceValues |-> values,
    moves |-> <<UnknownTokenEntry(values)>>]}

\* ------------------------------------------------------------------------
\* Calls of the validation API (RulesEngine, ActionHandler.getValidTurnMoves).
\* A call is made when no result is pending; last holds its arguments, the
\* caller's state before it and what it returned, until the caller takes it.
\* ------------------------------------------------------------------------
idle == last.op = "init"

IsValidMoveCall ==
  /\ idle
  /\ \E move \in MoveInputs(dice) : \E diceRoll \in RollsOf(dice) :
       last' = [op |-> "isValidMove", pre |-> gs, move |-> move,
                diceRoll |-> diceRoll,
                result |-> isValidMove(gs, move, diceRoll)]
  /\ UNCHANGED <<gs, dice, movers, nexec>>

\* the caller's object and the observation after validateTurnMove returned v
validateTurnMoveReturns(turnMove, v) ==
  /\ gs' = v.gameState
  /\ last' = [op |-> "validateTurnMove", pre |-> gs, turnMove |-> turnMove,
              result |-> v.result, simulated |-> v.simulated]

ValidateTurnMoveCall ==
  /\ idle
  /\ \E turnMove \in SubmittedTurns(dice) :
       validateTurnMoveReturns(turnMove, validateTurnMove(gs, turnMove))
  /\ UNCHANGED <<dice, movers, nexec>>

getAllValidMoveCombinationsReturns(playerId, all) ==
  /\ gs' = all.gameState
  /\ last' = [op |-> "getAllValidMoveCombinations", pre |-> gs,
              playerId |-> playerId, diceValues |-> dice,
              combinations |-> all.combinations]

GetAllValidMoveCombinationsCall ==
  /\ idle
  /\ \E playerId \in AllPlayerIds :
       getAllValidMoveCombinationsReturns(
         playerId, getAllValidMoveCombinations(gs, playerId, dice))
  /\ UNCHANGED <<dice, movers, nexec>>

getValidTurnMovesReturns(playerId, valid) ==
  /\ gs' = valid.gameState
  /\ last' = [op |-> "getValidTurnMoves", pre |-> gs, playerId |-> playerId,
              diceValues |-> dice, turnMoves |-> valid.turnMoves]

GetValidTurnMovesCall ==
  /\ idle
  /\ \E playerId \in AllPlayerIds :
       getValidTurnMovesReturns(playerId, getValidTurnMoves(gs, playerId, dice))
  /\ UNCHANGED <<dice, movers, nexec>>

\* the caller takes the result
Return ==
  /\ ~idle
  /\ last' = [op |-> "init"]
  /\ UNCHANGED <<gs, dice, movers, nexec>>

Next ==
  \/ IsValidMoveCall
  \/ ValidateTurnMoveCall
  \/ GetAllValidMoveCombinationsCall
  \/ GetValidTurnMovesCall
  \/ Return

Spec == Init /\ [][Next]_vars

\* ------------------------------------------------------------------------
\* Calls of the mutating API (MoveExecutor.executeMove through
\* ActionHandler.executeMove, ActionHandler.executeTurnMove).  Execution
\* reads only captureMode of the configuration.
\* ------------------------------------------------------------------------
ExecConfigs ==
  [diceMode : {"double"}, captureMode : {"stay", "finish"},
   maxConsecutiveSixes : {3}, safeStartingSquares : {TRUE},
   allowTokenStacking : {FALSE}, enforceFullDiceUsage : {TRUE}]

InitExec ==
  \E pl \in Placements : \E colors \in ColorPairs : \E config \in ExecConfigs :
    /\ placementFits(pl, colors)
    /\ config.safeStartingSquares \in pl.safeStart
    /\ gs = gameStateOf(pl, colors, config)
    /\ dice \in pl.rolls
    /\ movers = {tokenIdOf["player1"][k] : k \in pl.movers}
    /\ last = [op |-> "init"]
    /\ nexec = 0

DieValues(values) == {values[i] : i \in 1 .. Len(values)}

\* single moves handed to executeMove: the tokens of interest, an unknown
\* token, a token of the other player under the first player's id, an
\* unknown player, and the other player moving its own token
ExecutedMoves(values) ==
  [playerId : {"player1", GhostPlayer},
   tokenId : movers \cup {GhostToken, tokenIdOf["player2"][1]},
   steps : DieValues(values)]
  \cup
  [playerId : {"player2"}, tokenId : {tokenIdOf["player2"][1]},
   steps : DieValues(values)]

ExecutedTurns(values) ==
  {[playerId |-> "player1", diceValues |-> values, moves |-> ms] :
     ms \in SeqsUpTo(WellFormedEntries(values), MaxTurnLen)}
  \cup
  {[playerId |-> GhostPlayer, diceValues |-> values, moves |-> ms] :
     ms \in SeqsUpTo(WellFormedEntries(values), 1)}
  \cup
  {[playerId |-> "player1", diceValues |-> values,
    moves |-> <<UnknownTokenEntry(values)>>]}

executeMoveReturns(move, r) ==
  /\ gs' = r.gameState
  /\ last' = [op |-> "executeMove", pre |-> gs, move |-> move,
              captured |-> r.captured, capturedTokenId |-> r.capturedTokenId,
              threw |-> r.threw]

ExecuteMoveCall ==
  /\ idle
  /\ nexec < MaxExec
  /\ \E move \in ExecutedMoves(dice) : executeMoveReturns(move, executeMove(gs, move))
  /\ nexec' = nexec + 1
  /\ UNCHANGED <<dice, movers>>

executeTurnMoveReturns(turnMove, r) ==
  /\ gs' = r.gameState
  /\ last' = [op |-> "executeTurnMove", pre |-> gs, turnMove |-> turnMove,
              captured |-> r.captured, capturedTokenIds |-> r.capturedTokenIds,
              movesExecuted |-> r.movesExecuted]

ExecuteTurnMoveCall ==
  /\ idle
  /\ nexec < MaxExec
  /\ \E turnMove \in ExecutedTurns(dice) :
       executeTurnMoveReturns(turnMove, executeTurnMove(gs, turnMove))
  /\ nexec' = nexec + 1
  /\ UNCHANGED <<dice, movers>>

NextExec ==
  \/ ExecuteMoveCall
  \/ ExecuteTurnMoveCall
  \/ Return

SpecExec == InitExec /\ [][NextExec]_vars

\* ------------------------------------------------------------------------
\* A move executed on the live state and a legality question asked
\* afterwards.  Two tokens of the second player stand on the first player's
\* start square; the first player's tokens of interest are Home.
\* ------------------------------------------------------------------------
PlayPlacements ==
  { [name |-> "crowdedStart", p1 |-> <<-1, -1, 99, 99>>, p2 |-> <<0, 0, -1, -1>>,
     movers |-> {1, 2},       rolls |-> {<<6, 1>>, <<6, 6>>},
     safeStart |-> BOOLEAN] }

InitPlay ==
  \E pl \in PlayPlacements : \E colors \in ColorPairs : \E config \in Configs :
    /\ placementFits(pl, colors)
    /\ config.safeStartingSquares \in pl.safeStart
    /\ gs = gameStateOf(pl, colors, config)
    /\ dice \in pl.rolls
    /\ movers = {tokenIdOf["player1"][k] : k \in pl.movers}
    /\ last = [op |-> "init"]
    /\ nexec = 0

NextPlay ==
  \/ ExecuteMoveCall
  \/ IsValidMoveCall
  \/ Return

SpecPlay == InitPlay /\ [][NextPlay]_vars

\* ------------------------------------------------------------------------
\* What a call is measured against
\* ------------------------------------------------------------------------
validationOps ==
  {"isValidMove", "validateTurnMove", "getAllValidMoveCombinations",
   "getValidTurnMoves"}

validated == last.op = "validateTurnMove"

\* the live state after ActionHandler.executeTurnMove ran the first n moves
stateAfter(gameState, turnMove, n) ==
  executeTurnMove(gameState,
                  [turnMove EXCEPT !.moves = SubSeq(turnMove.moves, 1, n)]).gameState

\* step i of the replay: die index in range, steps equal to that die, and
\* the move legal in the state the earlier moves produced
stepSucceeds(gameState, turnMove, i) ==
  LET m == turnMove.moves[i]
  IN  /\ m.dieIndex >= 0
      /\ m.dieIndex < Len(turnMove.diceValues)
      /\ m.steps = turnMove.diceValues[m.dieIndex + 1]
      /\ isValidMove(stateAfter(gameState, turnMove, i - 1),
                     individualMove(turnMove.playerId, m.tokenId, m.steps),
                     singleDieRoll(m.steps))

replaySucceeds(gameState, turnMove) ==
  \A i \in 1 .. Len(turnMove.moves) : stepSucceeds(gameState, turnMove, i)

\* the full-dice-usage rule as validateTurnMove applies it before the replay
diceGateRejects(gameState, turnMove) ==
  /\ gameState.config.enforceFullDiceUsage
  /\ IF Len(turnMove.moves) = 0
     THEN LET pi == findPlayer(gameState, turnMove.playerId)
          IN  pi = 0 \/ anyDieUsable(gameState, gameState.players[pi],
                                     turnMove.playerId, turnMove.diceValues)
     ELSE /\ ~allDiceUsed(turnMove)
          /\ hasFullUsageCombination(
               getAllValidMoveCombinations(gameState, turnMove.playerId,
                                           turnMove.diceValues).combinations,
               turnMove.diceValues)

\* the player can spend every rolled die, taking the dice in some order
canSpendEveryDie(gameState, playerId, diceValues) ==
  LET pi == findPlayer(gameState, playerId)
      ids == IF pi = 0 THEN {}
             ELSE {gameState.players[pi].tokens[k].id :
                     k \in 1 .. Len(gameState.players[pi].tokens)}
      legal(g, t, d) == isValidMove(g, individualMove(playerId, t, d), singleDieRoll(d))
  IN  IF Len(diceValues) = 1
      THEN \E t \in ids : legal(gameState, t, diceValues[1])
      ELSE \E first \in 1 .. 2 : \E t1 \in ids : \E t2 \in ids :
             /\ legal(gameState, t1, diceValues[first])
             /\ legal(executeMove(gameState,
                        individualMove(playerId, t1, diceValues[first])).gameState,
                      t2, diceValues[3 - first])

citesDieTwice(turnMove) ==
  \E i \in 1 .. Len(turnMove.moves) : \E j \in 1 .. Len(turnMove.moves) :
    i < j /\ turnMove.moves[i].dieIndex = turnMove.moves[j].dieIndex

\* some entry names a die that was not rolled, or steps that are not that die
hasMalformedEntry(turnMove) ==
  \E i \in 1 .. Len(turnMove.moves) :
    LET m == turnMove.moves[i]
    IN  \/ m.dieIndex < 0
        \/ m.dieIndex >= Len(turnMove.diceValues)
        \/ m.steps # turnMove.diceValues[m.dieIndex + 1]

\* executeMove cannot resolve the move's player, or the token among that
\* player's tokens
lookupFails(gameState, move) ==
  LET pi == findPlayer(gameState, move.playerId)
  IN  pi = 0 \/ findToken(gameState.players[pi], move.tokenId) = 0

\* the token a move names, among the tokens of the player it names
tokenOfMove(gameState, move) ==
  LET player == gameState.players[findPlayer(gameState, move.playerId)]
  IN  player.tokens[findToken(player, move.tokenId)]

colorOfMove(gameState, move) ==
  gameState.players[findPlayer(gameState, move.playerId)].color

\* the same token after MoveExecutor.executeMove ran the move
tokenAfterMove(gameState, move) ==
  tokenOfMove(executeMove(gameState, move).gameState, move)

\* the id of the player that holds a token
ownerOf(gameState, tokenId) == tokenAt(gameState, findTokenById(gameState, tokenId)).playerId

\* occupants of a ring square that belong to another player, in list order
opposingOn(gameState, square, playerId) ==
  SelectSeq(gameState.board[square],
            LAMBDA id : findTokenById(gameState, id)[1] # 0
                        /\ ownerOf(gameState, id) # playerId)

\* the test by which a ring move turns into the home column
entersColumn(p, steps, color) ==
  /\ p <= getHomeColumnEntry(color)
  /\ (p + steps) % BoardSize > getHomeColumnEntry(color)

\* an executeMove call that found its player and its token
executedFound == last.op = "executeMove" /\ ~lookupFails(last.pre, last.move)

\* ring squares whose occupant list holds the token id
squaresListing(gameState, tokenId) ==
  {sq \in Ring : includes(gameState.board[sq], tokenId)}

\* ids of the tokens, other than the mover, that a call left different
changedTokens(before, after, moverId) ==
  {before.players[i].tokens[k].id :
     <<i, k>> \in {ik \in (1 .. Len(before.players)) \X (1 .. TokensPerPlayer) :
                     /\ before.players[ik[1]].tokens[ik[2]]
                          # after.players[ik[1]].tokens[ik[2]]
                     /\ before.players[ik[1]].tokens[ik[2]].id # moverId}}

\* the square the executed move lands on
destinationOf(gameState, move) ==
  calculateNewPosition(tokenOfMove(gameState, move).position, move.steps,
                       colorOfMove(gameState, move))

\* opposing tokens a move can capture: those on its destination when that is
\* a ring square
capturable(gameState, move) ==
  IF destinationOf(gameState, move) < BoardSize
  THEN opposingOn(gameState, destinationOf(gameState, move), move.playerId)
  ELSE <<>>

\* the four mid-ring safe squares, one listed per colour
FixedSafeSquares == {getSafePositions(color)[1] : color \in Colors}

\* another token of the moving player is listed on the move's destination
ownTokenOnDestination(gameState, move) ==
  /\ destinationOf(gameState, move) < BoardSize
  /\ \E i \in 1 .. Len(gameState.board[destinationOf(gameState, move)]) :
       LET id == gameState.board[destinationOf(gameState, move)][i]
       IN  /\ id # move.tokenId
           /\ findTokenById(gameState, id)[1] # 0
           /\ ownerOf(gameState, id) = move.playerId

\* the reasons other than own-token blocking for which isValidMove rejects
rejectedOtherwise(gameState, move, diceRoll) ==
  \/ move.steps # diceRoll.sum
  \/ tokenOfMove(gameState, move).state = "finished"
  \/ tokenOfMove(gameState, move).position = HomePosition /\ ~diceRoll.hasValidSix
  \/ /\ tokenOfMove(gameState, move).position # HomePosition
     /\ safeOpponentOn(gameState, gameState.board[destinationOf(gameState, move)],
                       destinationOf(gameState, move), move.playerId)

\* every token of the game with its colour
allTokens(gameState) ==
  {[token |-> gameState.players[i].tokens[k], color |-> gameState.players[i].color] :
     <<i, k>> \in (1 .. Len(gameState.players)) \X (1 .. TokensPerPlayer)}

\* how often a square lists a token id
timesListed(gameState, square, tokenId) ==
  Cardinality({k \in 1 .. Len(gameState.board[square]) :
                 gameState.board[square][k] = tokenId})

\* board[i] lists exactly the tokens whose position is i, each once
boardMatchesTokens(gameState) ==
  \A square \in Ring :
    /\ \A t \in allTokens(gameState) :
         timesListed(gameState, square, t.token.id)
           = IF t.token.position = square THEN 1 ELSE 0
    /\ \A k \in 1 .. Len(gameState.board[square]) :
         findTokenById(gameState, gameState.board[square][k])[1] # 0

\* the home column of a colour
columnOf(color) == getHomeColumnStart(color) .. getHomeColumnStart(color) + 5

\* position and state of a token name the same zone
inOneZone(token, color) ==
  /\ token.position = HomePosition <=> token.state = "home"
  /\ token.position \in Ring <=> token.state = "in-play"
  /\ token.position \in columnOf(color) <=> token.state = "home-column"
  /\ token.position = FinishedPosition <=> token.state = "finished"
  /\ token.position \in {HomePosition, FinishedPosition} \cup Ring \cup columnOf(color)

\* indices of the players whose 4 tokens are all in state finished
playersDone(gameState) ==
  {i \in 1 .. Len(gameState.players) :
     Cardinality({k \in 1 .. Len(gameState.players[i].tokens) :
                    gameState.players[i].tokens[k].state = "finished"})
       = TokensPerPlayer}

\* steps a home-column token is away from finishing
stepsToFinish(token, color) == getHomeColumnStart(color) + 6 - token.position

\* ------------------------------------------------------------------------
\* Properties
\* ------------------------------------------------------------------------

\* C1: all-or-nothing.  With enforceFullDiceUsage on and two dice rolled, if
\* getAllValidMoveCombinations holds a combination that uses both dice, then
\* validateTurnMove returns false for every non-empty turn whose moves leave
\* a die index unused.
C1_AllOrNothing ==
  ( /\ validated
    /\ last.pre.config.enforceFullDiceUsage
    /\ Len(last.turnMove.diceValues) = 2
    /\ Len(last.turnMove.moves) > 0
    /\ ~allDiceUsed(last.turnMove)
    /\ hasFullUsageCombination(
         getAllValidMoveCombinations(last.pre, last.turnMove.playerId,
                                     last.turnMove.diceValues).combinations,
         last.turnMove.diceValues) )
  => ~last.result

\* a one-die turn whose replay would succeed is turned down by the rule alone
C1_Witness ==
  /\ validated
  /\ last.pre.config.enforceFullDiceUsage
  /\ Len(last.turnMove.diceValues) = 2
  /\ Len(last.turnMove.moves) = 1
  /\ ~allDiceUsed(last.turnMove)
  /\ hasFullUsageCombination(
       getAllValidMoveCombinations(last.pre, last.turnMove.playerId,
                                   last.turnMove.diceValues).combinations,
       last.turnMove.diceValues)
  /\ replaySucceeds(last.pre, last.turnMove)
  /\ ~last.result

\* C2: with enforceFullDiceUsage on, whenever the player could spend every
\* rolled die in some order of play (die 1 before die 0 included),
\* validateTurnMove rejects any turn that leaves a die unused.
C2_AnyOrderAllOrNothing ==
  ( /\ validated
    /\ last.pre.config.enforceFullDiceUsage
    /\ ~allDiceUsed(last.turnMove)
    /\ canSpendEveryDie(last.pre, last.turnMove.playerId, last.turnMove.diceValues) )
  => ~last.result

\* C3: validateTurnMove rejects every turn in which two moves cite the same
\* dieIndex, in every state and under every configuration.
C3_EachDieOnce ==
  (validated /\ citesDieTwice(last.turnMove)) => ~last.result

\* C4 (as stated): validateTurnMove(S, T) is true iff the replay of T on a
\* clone of S succeeds at every step.
C4_ParityAsStated ==
  validated => (last.result <=> replaySucceeds(last.pre, last.turnMove))

\* C4: validateTurnMove(S, T) is true iff the full-dice-usage rule does not
\* reject T and the replay of T on a clone of S succeeds at every step.
C4_Parity ==
  validated =>
    (last.result <=> ( /\ ~diceGateRejects(last.pre, last.turnMove)
                       /\ replaySucceeds(last.pre, last.turnMove) ))

\* a two-move turn whose replay succeeds at both steps is accepted
C4_Witness ==
  /\ validated
  /\ Len(last.turnMove.moves) = 2
  /\ allDiceUsed(last.turnMove)
  /\ replaySucceeds(last.pre, last.turnMove)
  /\ last.result

\* C5: for a turn T accepted by validateTurnMove in state S, the scratch
\* state the validator reached equals the state executeTurnMove(S, T)
\* produces, and every move of T is isValidMove-legal in the live state at
\* the moment it is applied.
C5_SameOutcome ==
  (validated /\ last.result) =>
    /\ last.simulated = executeTurnMove(last.pre, last.turnMove).gameState
    /\ \A i \in 1 .. Len(last.turnMove.moves) :
         isValidMove(stateAfter(last.pre, last.turnMove, i - 1),
                     individualMove(last.turnMove.playerId,
                                    last.turnMove.moves[i].tokenId,
                                    last.turnMove.moves[i].steps),
                     singleDieRoll(last.turnMove.moves[i].steps))

\* an accepted two-move turn that captures
C5_Witness ==
  /\ validated
  /\ last.result
  /\ Len(last.turnMove.moves) = 2
  /\ executeTurnMove(last.pre, last.turnMove).captured
  /\ last.simulated # last.pre

\* C6: isValidMove, validateTurnMove, getAllValidMoveCombinations and
\* getValidTurnMoves leave the caller's GameState exactly as it was.
C6_ValidationIsReadOnly ==
  (last.op \in validationOps) => gs = last.pre

\* the enumeration simulated two-move branches and the state is untouched
C6_Witness ==
  /\ last.op = "getValidTurnMoves"
  /\ \E i \in 1 .. Len(last.turnMoves) : Len(last.turnMoves[i].moves) = 2
  /\ gs = last.pre

\* C7: executeMove with a player id or token id it cannot resolve returns
\* captured = false, leaves the GameState unchanged and does not throw.
C7_UnknownIdsShortCircuit ==
  (last.op = "executeMove" /\ lookupFails(last.pre, last.move)) =>
    /\ ~last.captured
    /\ ~last.threw
    /\ gs = last.pre

\* a known player moving an unknown token
C7_Witness ==
  /\ last.op = "executeMove"
  /\ last.move.playerId = "player1"
  /\ last.move.tokenId = GhostToken
  /\ ~last.captured
  /\ gs = last.pre

\* C8: validateTurnMove rejects any turn containing a move whose dieIndex is
\* outside [0, diceValues.length) or whose steps differ from
\* diceValues[dieIndex]; a move with steps = d1 + d2 is always rejected.
C8_NoSumInTurns ==
  (validated /\ hasMalformedEntry(last.turnMove)) => ~last.result

\* a turn whose second entry claims the dice total after a legal first entry
C8_Witness ==
  /\ validated
  /\ Len(last.turnMove.diceValues) = 2
  /\ Len(last.turnMove.moves) = 2
  /\ stepSucceeds(last.pre, last.turnMove, 1)
  /\ last.turnMove.moves[2].steps = sumOf(last.turnMove.diceValues)
  /\ ~last.result

\* C9: for a two-dice roll [d1, d2], isValidMove rejects a move with
\* steps = d1 + d2.
C9_SumRejected ==
  ( /\ last.op = "isValidMove"
    /\ Len(last.diceRoll.values) = 2
    /\ last.move.steps = last.diceRoll.values[1] + last.diceRoll.values[2] )
  => ~last.result

\* C10: a move of a Home token with steps 1..5 is rejected; with steps = 6
\* and hasValidSix (and no own token on the start square unless stacking is
\* allowed) isValidMove accepts it.
C10_HomeExitWithSix ==
  ( /\ last.op = "isValidMove"
    /\ ~lookupFails(last.pre, last.move) )
  =>
  LET pi == findPlayer(last.pre, last.move.playerId)
      player == last.pre.players[pi]
      token == player.tokens[findToken(player, last.move.tokenId)]
      start == getStartingPosition(player.color)
  IN  token.position = HomePosition =>
        /\ (last.move.steps \in 1 .. 5 => ~last.result)
        /\ ( ( /\ last.move.steps = 6
               /\ last.diceRoll.hasValidSix
               /\ \/ last.pre.config.allowTokenStacking
                  \/ ~ownTokenOn(last.pre, last.pre.board[start], last.move.playerId) )
             => last.result )


\* ------------------------------------------------------------------------
\* MoveExecutor.calculateNewPosition applied to every colour, every ring
\* position (and Home) and every face of a die
\* ------------------------------------------------------------------------
DieFaces == 1 .. 6

freshGame ==
  gameStateOf(CHOOSE pl \in Placements : pl.name = "fresh", <<"red", "blue">>,
              CHOOSE config \in ExecConfigs : config.captureMode = "stay")

InitPos ==
  /\ gs = freshGame
  /\ dice \in {<<face>> : face \in DieFaces}
  /\ movers = {}
  /\ last \in [op : {"input"}, color : Colors,
               currentPosition : Ring \cup {HomePosition}]
  /\ nexec = 0

CalculateNewPositionCall ==
  /\ last.op = "input"
  /\ last' = [op |-> "calculateNewPosition", color |-> last.color,
              currentPosition |-> last.currentPosition, steps |-> dice[1],
              result |-> calculateNewPosition(last.currentPosition, dice[1],
                                              last.color)]
  /\ UNCHANGED <<gs, dice, movers, nexec>>

NextPos == CalculateNewPositionCall

SpecPos == InitPos /\ [][NextPos]_vars

\* squares walked after leaving the colour's entry square when walking
\* steps squares round the ring from position p (0 when the walk does not
\* leave the entry square)
squaresBeyondEntry(p, steps, color) ==
  LET leaving == {j \in 0 .. steps - 1 :
                    (p + j) % BoardSize = getHomeColumnEntry(color)}
  IN  IF leaving = {} THEN 0 ELSE steps - (CHOOSE j \in leaving : TRUE)

\* ------------------------------------------------------------------------
\* GameStateManager: startGame, nextTurn, checkGameEnd
\* ------------------------------------------------------------------------
startGame(gameState) ==
  [gameState EXCEPT !.status = "in-progress",
                    !.players[gameState.currentPlayerIndex + 1].status = "active"]

\* line 82: the index of the player whose turn comes next
nextPlayerIndex(gameState) ==
  (gameState.currentPlayerIndex + 1) % Len(gameState.players)

\* a turn change that grants the extra turn once more than the cap allows
nextTurnLoose(gameState, extraTurn) ==
  IF extraTurn /\ gameState.consecutiveSixes < gameState.config.maxConsecutiveSixes
  THEN [gameState EXCEPT !.consecutiveSixes = @ + 1]
  ELSE [gameState EXCEPT
          !.consecutiveSixes = 0,
          !.players[gameState.currentPlayerIndex + 1].status = "waiting",
          !.currentPlayerIndex = nextPlayerIndex(gameState),
          !.players[nextPlayerIndex(gameState) + 1].status = "active"]

\* a turn change that rotates without resetting the counter
nextTurnKeepingCount(gameState, extraTurn) ==
  IF extraTurn /\ gameState.consecutiveSixes < gameState.config.maxConsecutiveSixes - 1
  THEN [gameState EXCEPT !.consecutiveSixes = @ + 1]
  ELSE [gameState EXCEPT
          !.players[gameState.currentPlayerIndex + 1].status = "waiting",
          !.currentPlayerIndex = nextPlayerIndex(gameState),
          !.players[nextPlayerIndex(gameState) + 1].status = "active"]

\* a turn change that leaves the player who had the turn active
nextTurnLeavingActive(gameState, extraTurn) ==
  IF extraTurn /\ gameState.consecutiveSixes < gameState.config.maxConsecutiveSixes - 1
  THEN [gameState EXCEPT !.consecutiveSixes = @ + 1]
  ELSE [gameState EXCEPT
          !.consecutiveSixes = 0,
          !.currentPlayerIndex = nextPlayerIndex(gameState),
          !.players[nextPlayerIndex(gameState) + 1].status = "active"]

\* a turn change that grants every extra turn asked for
nextTurnUncapped(gameState, extraTurn) ==
  IF extraTurn
  THEN [gameState EXCEPT !.consecutiveSixes = @ + 1]
  ELSE [gameState EXCEPT
          !.consecutiveSixes = 0,
          !.players[gameState.currentPlayerIndex + 1].status = "waiting",
          !.currentPlayerIndex = nextPlayerIndex(gameState),
          !.players[nextPlayerIndex(gameState) + 1].status = "active"]

\* currentPlayerIndex is 0-based; players is indexed from 1
nextTurn(gameState, extraTurn) ==
  IF extraTurn /\ gameState.consecutiveSixes < gameState.config.maxConsecutiveSixes - 1
  THEN [gameState EXCEPT !.consecutiveSixes = @ + 1]
  ELSE [gameState EXCEPT
          !.consecutiveSixes = 0,
          !.players[gameState.currentPlayerIndex + 1].status = "waiting",
          !.currentPlayerIndex = nextPlayerIndex(gameState),
          !.players[nextPlayerIndex(gameState) + 1].status = "active"]

\* a win test satisfied by one finished token
hasPlayerWonEarly(player) ==
  \E k \in 1 .. Len(player.tokens) : player.tokens[k].state = "finished"

\* RulesEngine.hasPlayerWon
hasPlayerWon(player) ==
  \A k \in 1 .. Len(player.tokens) : player.tokens[k].state = "finished"

checkGameEnd(gameState) ==
  LET won == {i \in 1 .. Len(gameState.players) : hasPlayerWon(gameState.players[i])}
  IN  IF won = {} THEN gameState
      ELSE [gameState EXCEPT
              !.status = "finished",
              !.winner = gameState.players[CHOOSE i \in won : \A j \in won : i <= j].id]

\* ------------------------------------------------------------------------
\* The life of a game: started, moves executed, turns passed on, the end
\* looked for.  The placements are games close to their end.
\* ------------------------------------------------------------------------
GamePlacements ==
  { [name |-> "opening",     p1 |-> <<-1, -1, -1, -1>>,   p2 |-> <<-1, -1, -1, -1>>,
     movers |-> {1},         rolls |-> {<<6, 6>>},
     safeStart |-> {TRUE}],
    [name |-> "lastToken",   p1 |-> <<103, 99, 99, 99>>,  p2 |-> <<-1, 30, -1, -1>>,
     movers |-> {1},         rolls |-> {<<3, 2>>},
     safeStart |-> {TRUE}],
    [name |-> "lastCapture", p1 |-> <<-1, 99, 99, 99>>,   p2 |-> <<0, -1, -1, -1>>,
     movers |-> {1},         rolls |-> {<<6, 2>>},
     safeStart |-> {TRUE}],
    [name |-> "bothLast",    p1 |-> <<103, 99, 99, 99>>,  p2 |-> <<99, 99, 99, 99>>,
     movers |-> {1},         rolls |-> {<<3, 2>>},
     safeStart |-> {TRUE}] }

GameConfigs ==
  [diceMode : {"double"}, captureMode : {"stay", "finish"},
   maxConsecutiveSixes : {2, 3}, safeStartingSquares : {TRUE},
   allowTokenStacking : {FALSE}, enforceFullDiceUsage : {TRUE}]

\* the state before startGame: nobody is active yet
notStarted(gameState) ==
  [gameState EXCEPT !.status = "waiting",
                    !.players = [i \in DOMAIN @ |-> [@[i] EXCEPT !.status = "waiting"]]]

InitGame ==
  \E pl \in GamePlacements : \E colors \in ColorPairs : \E config \in GameConfigs :
    /\ placementFits(pl, colors)
    /\ gs = notStarted(gameStateOf(pl, colors, config))
    /\ dice \in pl.rolls
    /\ movers = {tokenIdOf["player1"][k] : k \in pl.movers}
    /\ last = [op |-> "init"]
    /\ nexec = 0

StartGameCall ==
  /\ idle
  /\ gs' = startGame(gs)
  /\ last' = [op |-> "startGame", pre |-> gs]
  /\ UNCHANGED <<dice, movers, nexec>>

\* extra turns granted by the nextTurn calls made since the last call of
\* another kind, this one included
extraTurnsInARow(gameState, after) ==
  IF after.currentPlayerIndex # gameState.currentPlayerIndex THEN 0
  ELSE IF last.op = "nextTurn" THEN last.inARow + 1
  ELSE 1

nextTurnReturns(extraTurn, after) ==
  /\ gs' = after
  /\ last' = [op |-> "nextTurn", pre |-> gs, extraTurn |-> extraTurn,
              inARow |-> extraTurnsInARow(gs, after)]

\* nextTurn may follow nextTurn at once
NextTurnCall ==
  /\ idle \/ last.op = "nextTurn"
  /\ \E extraTurn \in BOOLEAN : nextTurnReturns(extraTurn, nextTurn(gs, extraTurn))
  /\ UNCHANGED <<dice, movers, nexec>>

CheckGameEndCall ==
  /\ idle
  /\ gs' = checkGameEnd(gs)
  /\ last' = [op |-> "checkGameEnd", pre |-> gs]
  /\ UNCHANGED <<dice, movers, nexec>>

NextGame ==
  \/ StartGameCall
  \/ NextTurnCall
  \/ CheckGameEndCall
  \/ ExecuteMoveCall
  \/ ExecuteTurnMoveCall
  \/ Return

SpecGame == InitGame /\ [][NextGame]_vars

\* ------------------------------------------------------------------------
\* GameStateManager.createGame applied to lists of player configs
\* ------------------------------------------------------------------------
\* what `new Array(52).fill(null)` puts on every square
NullSquare == "null"

TokenNumbers == <<"1", "2", "3", "4">>

createGame(playerConfigs, config) ==
  [config |-> config,
   players |->
     [i \in 1 .. Len(playerConfigs) |->
        [id |-> playerConfigs[i].id, color |-> playerConfigs[i].color,
         tokens |->
           [k \in 1 .. 4 |->
              [id |-> playerConfigs[i].id \o "-token-" \o TokenNumbers[k],
               playerId |-> playerConfigs[i].id,
               position |-> -1, state |-> "home"]],
         status |-> "waiting"]],
   currentPlayerIndex |-> 0,
   board |-> [sq \in 0 .. 51 |-> NullSquare],
   status |-> "waiting",
   winner |-> NoToken,
   consecutiveSixes |-> 0]

PlayerConfigs == [id : {"player1", "player2"}, color : Colors]

InitCreate ==
  /\ gs = freshGame
  /\ dice = <<>>
  /\ movers = {}
  /\ last \in [op : {"input"}, playerConfigs : SeqsUpTo(PlayerConfigs, MaxPlayers),
               config : GameConfigs]
  /\ nexec = 0

CreateGameCall ==
  /\ last.op = "input"
  /\ gs' = createGame(last.playerConfigs, last.config)
  /\ last' = [op |-> "createGame", playerConfigs |-> last.playerConfigs,
              config |-> last.config]
  /\ UNCHANGED <<dice, movers, nexec>>

NextCreate == CreateGameCall

SpecCreate == InitCreate /\ [][NextCreate]_vars

\* the square holds an occupant list, and the list is empty
isEmptyList(square) == IF square = NullSquare THEN FALSE ELSE square = <<>>

\* ------------------------------------------------------------------------
\* ActionHandler.rollDice.  A draw is Math.floor(Math.random() * 6), one of
\* 0..5; the second draw is made in double mode only.
\* ------------------------------------------------------------------------
Draws == [1 .. 2 -> 0 .. 5]

rolledValues(config, draws) ==
  IF config.diceMode = "single" THEN <<draws[1] + 1>>
  ELSE <<draws[1] + 1, draws[2] + 1>>

\* a roll in which any six grants the extra turn
rollDiceGenerous(config, draws) ==
  [values |-> rolledValues(config, draws),
   sum |-> sumOf(rolledValues(config, draws)),
   canMoveAgain |-> includes(rolledValues(config, draws), 6),
   hasValidSix |-> includes(rolledValues(config, draws), 6)]

rollDice(config, draws) ==
  [values |-> rolledValues(config, draws),
   sum |-> sumOf(rolledValues(config, draws)),
   canMoveAgain |-> IF config.diceMode = "single"
                    THEN rolledValues(config, draws)[1] = 6
                    ELSE /\ rolledValues(config, draws)[1] = 6
                         /\ rolledValues(config, draws)[2] = 6,
   hasValidSix |-> includes(rolledValues(config, draws), 6)]

DiceConfigs ==
  [diceMode : {"single", "double"}, captureMode : {"stay", "finish"},
   maxConsecutiveSixes : {3}, safeStartingSquares : {TRUE},
   allowTokenStacking : {FALSE}, enforceFullDiceUsage : {TRUE}]

\* a started game in which nothing has been rolled yet
InitDice ==
  \E config \in DiceConfigs :
    /\ gs = [freshGame EXCEPT !.config = config]
    /\ dice = <<>>
    /\ movers = {}
    /\ last = [op |-> "init"]
    /\ nexec = 0

rollDiceReturns(diceRoll) ==
  /\ dice' = diceRoll.values
  /\ last' = [op |-> "rollDice", config |-> gs.config, diceRoll |-> diceRoll]

RollDiceCall ==
  /\ idle
  /\ \E draws \in Draws : rollDiceReturns(rollDice(gs.config, draws))
  /\ UNCHANGED <<gs, movers, nexec>>

NextDice ==
  \/ RollDiceCall
  \/ Return

SpecDice == InitDice /\ [][NextDice]_vars

\* ------------------------------------------------------------------------
\* One token walked round the board by legal moves: each colour plays first
\* in a started game with every token Home, and its first token is moved by
\* one die after another for as long as isValidMove accepts the move.  No
\* other token leaves Home, so no move captures.
\* ------------------------------------------------------------------------
WalkColors ==
  { <<"red", "blue">>, <<"blue", "green">>, <<"green", "yellow">>, <<"yellow", "red">> }

walkerId == tokenIdOf["player1"][1]

InitWalk ==
  \E colors \in WalkColors :
    /\ gs = startGame(notStarted(
              gameStateOf(CHOOSE pl \in Placements : pl.name = "fresh", colors,
                          CHOOSE config \in ExecConfigs : config.captureMode = "stay")))
    /\ dice = <<6>>
    /\ movers = {walkerId}
    /\ last = [op |-> "init"]
    /\ nexec = 0

WalkCall ==
  /\ last.op \in {"init", "executeMove"}
  /\ \E face \in DieFaces :
       /\ isValidMove(gs, individualMove("player1", walkerId, face), singleDieRoll(face))
       /\ dice' = <<face>>
       /\ executeMoveReturns(individualMove("player1", walkerId, face),
                             executeMove(gs, individualMove("player1", walkerId, face)))
  /\ UNCHANGED <<movers, nexec>>

NextWalk == WalkCall

SpecWalk == InitWalk /\ [][NextWalk]_vars

\* the square 51 squares round the ring from the colour's start square
lastSquareOfLap(color) == (getStartingPosition(color) + 51) % BoardSize

\* ------------------------------------------------------------------------
\* Validated play (useGame.executeTurn): the current player's turn is handed
\* to validateTurnMove and, when accepted, to executeTurnMove; then nextTurn
\* and checkGameEnd run.  Either player may be the one to begin; the tokens
\* of interest are the same token numbers for both players.
\* ------------------------------------------------------------------------
TurnPlacements ==
  { [name |-> "opening",    p1 |-> <<-1, -1, -1, -1>>,   p2 |-> <<-1, -1, -1, -1>>,
     movers |-> {1, 2},     rolls |-> {<<6, 6>>},
     safeStart |-> {TRUE}],
    [name |-> "safe",       p1 |-> <<7, 15, 2, -1>>,     p2 |-> <<13, 21, 8, -1>>,
     movers |-> {1, 2},     rolls |-> {<<6, 1>>},
     safeStart |-> BOOLEAN],
    [name |-> "guarded",    p1 |-> <<0, 8, -1, -1>>,     p2 |-> <<46, 2, -1, -1>>,
     movers |-> {1, 2},     rolls |-> {<<6, 2>>},
     safeStart |-> BOOLEAN],
    [name |-> "chase",      p1 |-> <<10, -1, 99, 99>>,   p2 |-> <<14, 19, -1, -1>>,
     movers |-> {1, 2},     rolls |-> {<<5, 4>>},
     safeStart |-> {TRUE}],
    [name |-> "oppOnStart", p1 |-> <<-1, -1, 99, 99>>,   p2 |-> <<0, -1, -1, -1>>,
     movers |-> {1, 2},     rolls |-> {<<6, 2>>},
     safeStart |-> {TRUE}] }

TurnConfigs ==
  [diceMode : {"double"}, captureMode : {"stay", "finish"},
   maxConsecutiveSixes : {3}, safeStartingSquares : BOOLEAN,
   allowTokenStacking : BOOLEAN, enforceFullDiceUsage : {TRUE}]

InitTurn ==
  \E pl \in TurnPlacements : \E colors \in ColorPairs : \E config \in TurnConfigs :
    /\ config.safeStartingSquares \in pl.safeStart
    /\ gs \in {gameStateOf(pl, colors, config),
               nextTurn(gameStateOf(pl, colors, config), FALSE)}
    /\ dice \in pl.rolls
    /\ movers = {tokenIdOf["player1"][k] : k \in pl.movers}
    /\ last = [op |-> "init"]
    /\ nexec = 0

\* the tokens of interest of a player
moversOf(playerId) ==
  {tokenIdOf[playerId][k] : k \in {j \in 1 .. TokensPerPlayer : tokenIdOf["player1"][j] \in movers}}

\* turns a player may submit: as many moves as dice were rolled at most, each
\* a die spent on a token of interest, in any order, a die twice included
PlayedTurns(playerId, values) ==
  {[playerId |-> playerId, diceValues |-> values, moves |-> ms] :
     ms \in SeqsUpTo({[tokenId |-> t, steps |-> values[i], dieIndex |-> i - 1] :
                        t \in moversOf(playerId), i \in 1 .. Len(values)},
                     Len(values))}

currentPlayerId(gameState) == gameState.players[gameState.currentPlayerIndex + 1].id

\* hasDouble = diceValues[0] === diceValues[1]
hasDouble(values) == Len(values) > 1 /\ values[1] = values[2]

\* executeTurnMove has run: nextTurn, checkGameEnd, and what was observed
executeTurnReturns(turnMove, r) ==
  /\ gs' = checkGameEnd(nextTurn(r.gameState, hasDouble(turnMove.diceValues)))
  /\ last' = [op |-> "executeTurn", pre |-> gs, turnMove |-> turnMove,
              executed |-> r.gameState,
              captured |-> r.captured, capturedTokenIds |-> r.capturedTokenIds,
              movesExecuted |-> r.movesExecuted]

\* `if (!isValid) throw`, then executeTurnMove on the same object
executeTurnValidated(turnMove, v) ==
  /\ v.result
  /\ executeTurnReturns(turnMove, executeTurnMove(v.gameState, turnMove))

ExecuteTurnCall ==
  /\ last.op \in {"init", "executeTurn"}
  /\ nexec < MaxTurns
  /\ \E turnMove \in PlayedTurns(currentPlayerId(gs), dice) :
       executeTurnValidated(turnMove, validateTurnMove(gs, turnMove))
  /\ nexec' = nexec + 1
  /\ UNCHANGED <<dice, movers>>

NextTurnPlay == ExecuteTurnCall

SpecTurn == InitTurn /\ [][NextTurnPlay]_vars

\* ------------------------------------------------------------------------
\* The turn going round: a game is created for one player or more, started,
\* and nextTurn is called again and again with either flag.  The observation
\* of a nextTurn call counts, for every player, the nextTurn calls made since
\* the player last had the turn.
\* ------------------------------------------------------------------------
RoundConfigs ==
  [diceMode : {"double"}, captureMode : {"stay"},
   maxConsecutiveSixes : {1, 2, 3}, safeStartingSquares : {TRUE},
   allowTokenStacking : {FALSE}, enforceFullDiceUsage : {TRUE}]

InitRound ==
  \E playerConfigs \in SeqsUpTo(PlayerConfigs, MaxPlayers) : \E config \in RoundConfigs :
    /\ Len(playerConfigs) > 0
    /\ gs = createGame(playerConfigs, config)
    /\ dice = <<>>
    /\ movers = {}
    /\ last = [op |-> "init"]
    /\ nexec = 0

\* nextTurn calls since each player last had the turn, before this call
waitedSoFar(gameState) ==
  IF last.op = "nextTurn" THEN last.waited
  ELSE [i \in 1 .. Len(gameState.players) |-> 0]

roundTurnReturns(extraTurn, after, waited) ==
  /\ gs' = after
  /\ last' = [op |-> "nextTurn", pre |-> gs, extraTurn |-> extraTurn,
              waited |-> [i \in DOMAIN waited |->
                            IF after.currentPlayerIndex + 1 = i THEN 0
                            ELSE waited[i] + 1]]

\* the calls stop once a player has waited a full n * m calls
RoundTurnCall ==
  /\ last.op \in {"startGame", "nextTurn"}
  /\ \A i \in 1 .. Len(gs.players) :
       waitedSoFar(gs)[i] < Len(gs.players) * gs.config.maxConsecutiveSixes
  /\ \E extraTurn \in BOOLEAN :
       roundTurnReturns(extraTurn, nextTurn(gs, extraTurn), waitedSoFar(gs))
  /\ UNCHANGED <<dice, movers, nexec>>

NextRound ==
  \/ StartGameCall
  \/ RoundTurnCall

SpecRound == InitRound /\ [][NextRound]_vars

\* C11: for a home-column token k steps from finishing, isValidMove rejects
\* steps > k; steps <= k is accepted (under the one-die roll built for the
\* move); executing steps = k gives position 99 / finished, and steps < k
\* gives position + steps / home-column.
C11_NoOvershoot ==
  ( /\ last.op = "isValidMove"
    /\ ~lookupFails(last.pre, last.move)
    /\ tokenOfMove(last.pre, last.move).state = "home-column" )
  =>
  LET token == tokenOfMove(last.pre, last.move)
      k == stepsToFinish(token, colorOfMove(last.pre, last.move))
      after == tokenAfterMove(last.pre, last.move)
      steps == last.move.steps
  IN  /\ (steps > k => ~last.result)
      /\ ((steps <= k /\ last.diceRoll = singleDieRoll(steps)) => last.result)
      /\ (steps = k => after.position = FinishedPosition /\ after.state = "finished")
      /\ (steps < k => after.position = token.position + steps
                       /\ after.state = "home-column")

\* the exact number of steps is accepted and finishes the token
C11_Witness ==
  /\ last.op = "isValidMove"
  /\ ~lookupFails(last.pre, last.move)
  /\ tokenOfMove(last.pre, last.move).state = "home-column"
  /\ last.move.steps = stepsToFinish(tokenOfMove(last.pre, last.move),
                                     colorOfMove(last.pre, last.move))
  /\ last.result
  /\ tokenAfterMove(last.pre, last.move).state = "finished"

\* C12: for every colour, ring position p and steps s in 1..6 whose walk
\* passes the colour's entry square, calculateNewPosition returns
\* homeColumnStart + (squares walked beyond the entry square - 1).
C12_EntersOwnColumn ==
  ( /\ last.op = "calculateNewPosition"
    /\ last.currentPosition \in Ring
    /\ squaresBeyondEntry(last.currentPosition, last.steps, last.color) > 0 )
  =>
  last.result = getHomeColumnStart(last.color)
                + squaresBeyondEntry(last.currentPosition, last.steps,
                                     last.color) - 1

C14_CaptureFinishes ==
  ( /\ executedFound
    /\ last.captured
    /\ last.pre.config.captureMode = "finish" )
  =>
  /\ tokenOfMove(gs, last.move).position = FinishedPosition
  /\ tokenOfMove(gs, last.move).state = "finished"
  /\ squaresListing(gs, last.move.tokenId) = {}

\* a capture made while leaving Home onto the start square
C14_Witness ==
  /\ executedFound
  /\ last.captured
  /\ last.pre.config.captureMode = "finish"
  /\ tokenOfMove(last.pre, last.move).position = HomePosition
  /\ tokenOfMove(gs, last.move).state = "finished"

\* C15: one executeMove captures at most one token, and only on a ring
\* destination holding a token of another player: the victim is the first
\* opposing token in the square's occupant order, ends at -1 / home and is
\* removed from the square; no token of the moving player and no token
\* beside a home-column destination is captured.
C15_OneCapture ==
  executedFound =>
  LET opp == capturable(last.pre, last.move)
      changed == changedTokens(last.pre, gs, last.move.tokenId)
  IN  /\ last.captured <=> opp # <<>>
      /\ \A id \in changed : ownerOf(last.pre, id) # last.move.playerId
      /\ opp = <<>> => changed = {} /\ last.capturedTokenId = NoToken
      /\ opp # <<>> =>
           /\ changed = {opp[1]}
           /\ last.capturedTokenId = opp[1]
           /\ tokenAt(gs, findTokenById(gs, opp[1])).position = HomePosition
           /\ tokenAt(gs, findTokenById(gs, opp[1])).state = "home"
           /\ squaresListing(gs, opp[1]) = {}

\* two opposing tokens share the destination and only the first goes Home
C15_Witness ==
  /\ executedFound
  /\ last.captured
  /\ Len(capturable(last.pre, last.move)) = 2
  /\ last.capturedTokenId = capturable(last.pre, last.move)[1]
  /\ tokenAt(gs, findTokenById(gs, capturable(last.pre, last.move)[2])).state
       = "in-play"

\* C16: with captureMode = 'stay', after an executeMove that captures, the
\* capturing token is on the capture square (position, state in-play, listed
\* among its occupants) and the captured token is Home and listed on no
\* square.
C16_CaptureStays ==
  ( /\ executedFound
    /\ last.captured
    /\ last.pre.config.captureMode = "stay" )
  =>
  LET square == destinationOf(last.pre, last.move)
      victim == tokenAt(gs, findTokenById(gs, last.capturedTokenId))
  IN  /\ tokenOfMove(gs, last.move).position = square
      /\ tokenOfMove(gs, last.move).state = "in-play"
      /\ includes(gs.board[square], last.move.tokenId)
      /\ victim.position = HomePosition
      /\ victim.state = "home"
      /\ squaresListing(gs, last.capturedTokenId) = {}

\* a capture in stay mode by a token that was on the ring
C16_Witness ==
  /\ executedFound
  /\ last.captured
  /\ last.pre.config.captureMode = "stay"
  /\ tokenOfMove(last.pre, last.move).state = "in-play"
  /\ squaresListing(gs, last.move.tokenId)
       = {tokenAt(last.pre, findTokenById(last.pre, last.capturedTokenId)).position}

C18_OwnTokenBlocks ==
  ( /\ last.op = "isValidMove"
    /\ ~lookupFails(last.pre, last.move)
    /\ ownTokenOnDestination(last.pre, last.move) )
  =>
  /\ ~last.pre.config.allowTokenStacking => ~last.result
  /\ ( /\ last.pre.config.allowTokenStacking
       /\ ~rejectedOtherwise(last.pre, last.move, last.diceRoll) ) => last.result

\* C19: from a consistent state, after any sequence of executeMove and
\* executeTurnMove calls, validated or not, every board[i] lists exactly the
\* ids of the tokens whose position is i, each at most once; tokens that are
\* Home, in a home column or Finished are listed on no square.
C19_BoardMatchesTokens == boardMatchesTokens(gs)

\* a turn of two moves with a capture has been executed
C19_Witness ==
  /\ last.op = "executeTurnMove"
  /\ last.movesExecuted = 2
  /\ last.captured
  /\ gs.board # last.pre.board
  /\ boardMatchesTokens(gs)

\* C20: from a consistent state, after any sequence of executeMove calls,
\* every token's position lies in exactly one zone and its state is the one
\* of that zone: -1 iff home, 0..51 iff in-play, the column of its own colour
\* iff home-column, 99 iff finished; no other position occurs.
C20_TokenZones ==
  \A t \in allTokens(gs) : inOneZone(t.token, t.color)

\* a ring token has walked into its home column
C20_Witness ==
  /\ executedFound
  /\ tokenOfMove(last.pre, last.move).state = "in-play"
  /\ tokenOfMove(gs, last.move).state = "home-column"
  /\ tokenOfMove(gs, last.move).position \in columnOf(colorOfMove(gs, last.move))

\* C21: counted from consecutiveSixes = 0, nextTurn(state, true) keeps the
\* player while fewer than maxConsecutiveSixes - 1 extra turns were granted
\* and rotates and resets the counter on the next call (the third for a cap
\* of 3); over any sequence of nextTurn calls a player gets at most
\* maxConsecutiveSixes - 1 extra turns in a row and consecutiveSixes stays
\* in 0 .. maxConsecutiveSixes - 1.
C21_SixCap ==
  /\ gs.consecutiveSixes \in 0 .. gs.config.maxConsecutiveSixes - 1
  /\ last.op = "nextTurn" =>
       /\ last.inARow <= gs.config.maxConsecutiveSixes - 1
       /\ ( /\ last.extraTurn
            /\ last.pre.consecutiveSixes < gs.config.maxConsecutiveSixes - 1 )
          => gs.currentPlayerIndex = last.pre.currentPlayerIndex
       /\ ( /\ last.extraTurn
            /\ last.pre.consecutiveSixes = gs.config.maxConsecutiveSixes - 1 )
          => /\ gs.currentPlayerIndex # last.pre.currentPlayerIndex
             /\ gs.consecutiveSixes = 0

\* with a cap of 3, the third call in a row that asks for an extra turn
\* rotates
C21_Witness ==
  /\ last.op = "nextTurn"
  /\ last.extraTurn
  /\ gs.config.maxConsecutiveSixes = 3
  /\ last.pre.consecutiveSixes = 2
  /\ last.inARow = 0
  /\ gs.currentPlayerIndex # last.pre.currentPlayerIndex
  /\ gs.consecutiveSixes = 0

\* C22: nextTurn either rotates or grants an extra turn.  When the active
\* player changes, currentPlayerIndex is (old + 1) mod player count, a valid
\* index, and consecutiveSixes is 0; when the extra turn is granted,
\* currentPlayerIndex and every player's status are unchanged and
\* consecutiveSixes grows by exactly 1; tokens and board are untouched in
\* both cases.
C22_RotateOrExtraTurn ==
  /\ gs.currentPlayerIndex \in 0 .. Len(gs.players) - 1
  /\ last.op = "nextTurn" =>
       /\ gs.board = last.pre.board
       /\ \A i \in 1 .. Len(gs.players) :
            gs.players[i].tokens = last.pre.players[i].tokens
       /\ IF gs.currentPlayerIndex # last.pre.currentPlayerIndex
          THEN /\ gs.currentPlayerIndex
                    = (last.pre.currentPlayerIndex + 1) % Len(last.pre.players)
               /\ gs.consecutiveSixes = 0
          ELSE /\ \A i \in 1 .. Len(gs.players) :
                    gs.players[i].status = last.pre.players[i].status
               /\ gs.consecutiveSixes = last.pre.consecutiveSixes + 1

\* the turn passes from the last player of the list back to the first
\* after an extra turn had been granted
C22_Witness ==
  /\ last.op = "nextTurn"
  /\ last.pre.currentPlayerIndex = Len(gs.players) - 1
  /\ last.pre.consecutiveSixes > 0
  /\ gs.currentPlayerIndex = 0
  /\ gs.consecutiveSixes = 0

\* C23: checkGameEnd sets status = 'finished' and winner = p.id exactly when
\* some player has all 4 tokens in state finished, p being the first such
\* player in list order; otherwise it changes neither status nor winner.
C23_WinDetection ==
  last.op = "checkGameEnd" =>
    IF playersDone(last.pre) = {}
    THEN gs.status = last.pre.status /\ gs.winner = last.pre.winner
    ELSE /\ gs.status = "finished"
         /\ \E i \in playersDone(last.pre) :
              /\ \A j \in playersDone(last.pre) : i <= j
              /\ gs.winner = last.pre.players[i].id

\* both players have finished all their tokens and the first of the list is
\* declared the winner
C23_Witness ==
  /\ last.op = "checkGameEnd"
  /\ playersDone(last.pre) = {1, 2}
  /\ last.pre.status # "finished"
  /\ gs.status = "finished"
  /\ gs.winner = "player1"

\* C24: status follows waiting -> in-progress -> finished without a way
\* back: no call of startGame, nextTurn, checkGameEnd, executeMove or
\* executeTurnMove takes it from in-progress to waiting, and once it is
\* 'finished' no call changes it.
C24_StatusNeverGoesBack ==
  last.op \in {"startGame", "nextTurn", "checkGameEnd", "executeMove",
               "executeTurnMove"} =>
    /\ last.pre.status = "in-progress" => gs.status # "waiting"
    /\ last.pre.status = "finished" => gs.status = "finished"

\* C25: createGame returns, for any list of player configs, a state with
\* status waiting, currentPlayerIndex 0, consecutiveSixes 0, no winner, 4
\* tokens with distinct ids per player, each at -1 in state home, and a
\* board of exactly 52 squares each holding an empty occupant list.
C25_FreshGame ==
  last.op = "createGame" =>
    /\ gs.status = "waiting"
    /\ gs.currentPlayerIndex = 0
    /\ gs.consecutiveSixes = 0
    /\ gs.winner = NoToken
    /\ Len(gs.players) = Len(last.playerConfigs)
    /\ \A i \in 1 .. Len(gs.players) :
         /\ Len(gs.players[i].tokens) = TokensPerPlayer
         /\ Cardinality({gs.players[i].tokens[k].id : k \in 1 .. TokensPerPlayer})
              = TokensPerPlayer
         /\ \A k \in 1 .. TokensPerPlayer :
              /\ gs.players[i].tokens[k].position = HomePosition
              /\ gs.players[i].tokens[k].state = "home"
    /\ DOMAIN gs.board = Ring
    /\ \A sq \in Ring : isEmptyList(gs.board[sq])

\* C26: for every draw, rollDice returns 1 value in single mode and 2 in
\* double mode, each in 1..6; sum is their total; hasValidSix holds iff some
\* value is 6; canMoveAgain holds iff the single value is 6 or, in double
\* mode, both values are 6.
C26_RollShape ==
  last.op = "rollDice" =>
    LET values == last.diceRoll.values
        single == last.config.diceMode = "single"
    IN  /\ Len(values) = IF single THEN 1 ELSE 2
        /\ \A i \in 1 .. Len(values) : values[i] \in 1 .. 6
        /\ last.diceRoll.sum = IF single THEN values[1] ELSE values[1] + values[2]
        /\ last.diceRoll.hasValidSix <=> \E i \in 1 .. Len(values) : values[i] = 6
        /\ last.diceRoll.canMoveAgain
             <=> \A i \in 1 .. Len(values) : values[i] = 6

\* one six in double mode: a valid six, no extra turn
C26_Witness ==
  /\ last.op = "rollDice"
  /\ last.config.diceMode = "double"
  /\ last.diceRoll.values = <<6, 2>>
  /\ last.diceRoll.hasValidSix
  /\ ~last.diceRoll.canMoveAgain

\* C27: every TurnMove returned by getValidTurnMoves(state, playerId,
\* diceValues) is accepted by validateTurnMove on the same state, carries the
\* given playerId and diceValues, and its moves are one of the combinations
\* of getAllValidMoveCombinations.
C27_ValidTurnMovesSound ==
  last.op = "getValidTurnMoves" =>
    \A i \in 1 .. Len(last.turnMoves) :
      /\ validateTurnMove(gs, last.turnMoves[i]).result
      /\ last.turnMoves[i].playerId = last.playerId
      /\ last.turnMoves[i].diceValues = last.diceValues
      /\ includes(getAllValidMoveCombinations(gs, last.playerId,
                                              last.diceValues).combinations,
                  last.turnMoves[i].moves)

\* some combinations were returned and some were filtered out
C27_Witness ==
  /\ last.op = "getValidTurnMoves"
  /\ Len(last.turnMoves) > 0
  /\ Len(last.turnMoves)
       < Len(getAllValidMoveCombinations(gs, last.playerId,
                                         last.diceValues).combinations)
  /\ \A i \in 1 .. Len(last.turnMoves) :
       validateTurnMove(gs, last.turnMoves[i]).result

\* the empty turn of the last validateTurnMove call
emptyTurnValidated ==
  last.op = "validateTurnMove" /\ Len(last.turnMove.moves) = 0

\* tokens of the players of gameState whose id is playerId
tokensOfPlayer(gameState, playerId) ==
  { gameState.players[i].tokens[k] :
      i \in {j \in 1 .. Len(gameState.players) : gameState.players[j].id = playerId},
      k \in 1 .. TokensPerPlayer }

\* isValidMove is false for every token of the player and every die value
noTokenCanUseADie(gameState, playerId, diceValues) ==
  \A token \in tokensOfPlayer(gameState, playerId) :
    \A d \in 1 .. Len(diceValues) :
      ~isValidMove(gameState,
                   [playerId |-> playerId, tokenId |-> token.id, steps |-> diceValues[d]],
                   [values |-> <<diceValues[d]>>, sum |-> diceValues[d],
                    canMoveAgain |-> FALSE, hasValidSix |-> diceValues[d] = 6])

\* C28 (as stated): validateTurnMove on a turn with an empty move list
\* returns true iff enforceFullDiceUsage is false, or no token of the player
\* can legally use any of the rolled dice in the current state.
C28_EmptyTurnAsStated ==
  emptyTurnValidated =>
    (last.result <=>
       ( \/ ~last.pre.config.enforceFullDiceUsage
         \/ noTokenCanUseADie(last.pre, last.turnMove.playerId,
                              last.turnMove.diceValues) ))

\* C28: validateTurnMove on a turn with an empty move list returns true iff
\* enforceFullDiceUsage is false, or the turn's player is a player of the
\* game and none of its tokens can legally use any of the rolled dice.
C28_EmptyTurn ==
  emptyTurnValidated =>
    (last.result <=>
       ( \/ ~last.pre.config.enforceFullDiceUsage
         \/ /\ tokensOfPlayer(last.pre, last.turnMove.playerId) # {}
            /\ noTokenCanUseADie(last.pre, last.turnMove.playerId,
                                 last.turnMove.diceValues) ))

\* under enforceFullDiceUsage an empty turn is accepted for a player of the
\* game none of whose tokens can move
C28_Witness ==
  /\ emptyTurnValidated
  /\ last.pre.config.enforceFullDiceUsage
  /\ tokensOfPlayer(last.pre, last.turnMove.playerId) # {}
  /\ noTokenCanUseADie(last.pre, last.turnMove.playerId, last.turnMove.diceValues)
  /\ last.result

\* the state of the token with that id, "none" when no player holds it
tokenStateIn(gameState, tokenId) ==
  IF findTokenById(gameState, tokenId) = <<0, 0>> THEN "none"
  ELSE tokenAt(gameState, findTokenById(gameState, tokenId)).state

\* move i of the turn, executed after the moves before it, finishes its token
finishedByMove(gameState, turnMove, i) ==
  /\ tokenStateIn(stateAfter(gameState, turnMove, i - 1), turnMove.moves[i].tokenId)
       \in {"home", "in-play", "home-column"}
  /\ tokenStateIn(stateAfter(gameState, turnMove, i), turnMove.moves[i].tokenId) = "finished"

\* move j targets a token that an earlier move of the turn has finished
targetsFinishedToken(gameState, turnMove, j) ==
  \E i \in 1 .. (j - 1) :
    /\ turnMove.moves[i].tokenId = turnMove.moves[j].tokenId
    /\ finishedByMove(gameState, turnMove, i)

\* C29: validateTurnMove rejects every turn in which a move targets a token
\* that an earlier move of the same turn has finished, by exact finish or by
\* a capture in captureMode 'finish'.
C29_LaterMovesSeeEarlier ==
  ( /\ validated
    /\ \E j \in 1 .. Len(last.turnMove.moves) :
         targetsFinishedToken(last.pre, last.turnMove, j) )
  => ~last.result

\* dice {5,4}: the 4 captures and finishes the mover, a legal first move, and
\* the turn that also spends the 5 on that token is rejected
C29_Witness ==
  /\ validated
  /\ last.pre.config.captureMode = "finish"
  /\ Len(last.turnMove.moves) = 2
  /\ allDiceUsed(last.turnMove)
  /\ ~hasMalformedEntry(last.turnMove)
  /\ stepSucceeds(last.pre, last.turnMove, 1)
  /\ executeMove(last.pre, individualMove(last.turnMove.playerId,
                                          last.turnMove.moves[1].tokenId,
                                          last.turnMove.moves[1].steps)).captured
  /\ targetsFinishedToken(last.pre, last.turnMove, 2)
  /\ ~last.result

\* C30: for every colour, red included, a token that has walked 51 squares
\* from its start square enters its home column on the next legal move
\* instead of beginning a second lap of the ring, so that ordinary,
\* non-capturing moves take a token Home -> ring -> home column -> Finished.
C30_ColumnAfterOneLap ==
  ( /\ last.op = "executeMove"
    /\ tokenOfMove(last.pre, last.move).state = "in-play"
    /\ tokenOfMove(last.pre, last.move).position
         = lastSquareOfLap(colorOfMove(last.pre, last.move)) )
  => tokenOfMove(gs, last.move).state = "home-column"

\* a token standing on a ring square on which its own colour is safe: its
\* colour's start square when safeStartingSquares is on, or its colour's
\* safe square (red 8, blue 21, green 34, yellow 47)
standsSafe(gameState, token) ==
  /\ token.state = "in-play"
  /\ \/ /\ gameState.config.safeStartingSquares
        /\ token.position = getStartingPosition(getPlayerColor(gameState, token.playerId))
     \/ token.position = getStartingPosition(getPlayerColor(gameState, token.playerId)) + 8

\* tokens of the players other than playerId
opponentTokens(gameState, playerId) ==
  { gameState.players[i].tokens[k] :
      i \in {j \in 1 .. Len(gameState.players) : gameState.players[j].id # playerId},
      k \in 1 .. TokensPerPlayer }

\* C31: over any sequence of turns each accepted by validateTurnMove and then
\* applied by executeTurnMove, a token standing on its own colour's start
\* square (safeStartingSquares on) or on its own colour's safe square is not
\* sent Home by an opponent's turn: it is where it was.
C31_SafeTokensSurvive ==
  last.op = "executeTurn" =>
    \A token \in opponentTokens(last.pre, last.turnMove.playerId) :
      standsSafe(last.pre, token) =>
        tokenAt(last.executed, findTokenById(last.executed, token.id)) = token

\* a turn was played while an opposing token stood safe one die away from a
\* ring token of the player, and the turn moved something
C31_Witness ==
  /\ last.op = "executeTurn"
  /\ last.movesExecuted > 0
  /\ \E token \in opponentTokens(last.pre, last.turnMove.playerId) :
       /\ standsSafe(last.pre, token)
       /\ \E mine \in tokensOfPlayer(last.pre, last.turnMove.playerId) :
            \E d \in 1 .. Len(last.turnMove.diceValues) :
              /\ mine.state = "in-play"
              /\ (mine.position + last.turnMove.diceValues[d]) % BoardSize = token.position

\* the combinations of the last getAllValidMoveCombinations call
enumerated == last.op = "getAllValidMoveCombinations"

\* a combination as the turn of the call's player
turnOf(combination) ==
  [playerId |-> last.playerId, diceValues |-> last.diceValues, moves |-> combination]

\* entries of a combination that spend a die before die index i
movesBefore(combination, i) ==
  Cardinality({j \in 1 .. Len(combination) : combination[j].dieIndex < i})

\* non-empty, die indexes strictly increasing and in range, steps the die's
\* value, every move legal after the moves before it
wellShaped(combination) ==
  /\ Len(combination) > 0
  /\ \A j \in 1 .. Len(combination) :
       /\ combination[j].dieIndex >= 0
       /\ combination[j].dieIndex < Len(last.diceValues)
       /\ combination[j].steps = last.diceValues[combination[j].dieIndex + 1]
       /\ \A k \in (j + 1) .. Len(combination) :
            combination[j].dieIndex < combination[k].dieIndex
       /\ isValidMove(stateAfter(last.pre, turnOf(combination), j - 1),
                      [playerId |-> last.playerId, tokenId |-> combination[j].tokenId,
                       steps |-> combination[j].steps],
                      [values |-> <<combination[j].steps>>, sum |-> combination[j].steps,
                       canMoveAgain |-> FALSE, hasValidSix |-> combination[j].steps = 6])

\* a die index is missing only where no token of the player could use the die
skipsOnlyDeadDice(combination) ==
  \A i \in 0 .. (Len(last.diceValues) - 1) :
    (\A j \in 1 .. Len(combination) : combination[j].dieIndex # i) =>
      noTokenCanUseADie(stateAfter(last.pre, turnOf(combination),
                                   movesBefore(combination, i)),
                        last.playerId, <<last.diceValues[i + 1]>>)

\* C32: every combination returned by getAllValidMoveCombinations is
\* non-empty, has strictly increasing dieIndex values within
\* [0, diceValues.length), has steps = diceValues[dieIndex] in every entry,
\* and each move is isValidMove-legal in the state obtained by applying the
\* combination's earlier moves via the MoveExecutor; a die index is missing
\* from a combination only if, after the combination's moves for the dice
\* before it, no token of the player can legally move that die; at most
\* 4^(number of dice) combinations are returned.
C32_EnumerationShape ==
  enumerated =>
    /\ \A c \in 1 .. Len(last.combinations) :
         /\ wellShaped(last.combinations[c])
         /\ skipsOnlyDeadDice(last.combinations[c])
    /\ Len(last.combinations) <= TokensPerPlayer ^ Len(last.diceValues)

\* two dice: a combination that spends both and one that leaves out a die no
\* token could use after its first move
C32_Witness ==
  /\ enumerated
  /\ Len(last.diceValues) = 2
  /\ \E c \in 1 .. Len(last.combinations) : Len(last.combinations[c]) = 2
  /\ \E c \in 1 .. Len(last.combinations) :
       /\ Len(last.combinations[c]) = 1
       /\ last.combinations[c][1].dieIndex = 0

\* the length of the longest of the combinations
longestOf(combinations) ==
  IF Len(combinations) = 0 THEN 0
  ELSE CHOOSE n \in {Len(combinations[c]) : c \in 1 .. Len(combinations)} :
         \A c \in 1 .. Len(combinations) : Len(combinations[c]) <= n

\* the move lists of the turns, in order
moveListsOf(turnMoves) == [i \in 1 .. Len(turnMoves) |-> turnMoves[i].moves]

\* validateTurnMove accepts exactly the longest combinations, and turnMoves
\* are exactly those, in the order of the enumeration
onlyTheLongest(gameState, playerId, diceValues, combinations, turnMoves) ==
  /\ \A c \in 1 .. Len(combinations) :
       validateTurnMove(gameState, [playerId |-> playerId, diceValues |-> diceValues,
                                    moves |-> combinations[c]]).result
       <=> Len(combinations[c]) = longestOf(combinations)
  /\ moveListsOf(turnMoves)
       = SelectSeq(combinations, LAMBDA c : Len(c) = longestOf(combinations))

\* C33: with enforceFullDiceUsage on and one or two dice, a combination
\* returned by getAllValidMoveCombinations is accepted by validateTurnMove iff
\* its length is the maximum length among the returned combinations, and
\* getValidTurnMoves returns exactly the maximum-length combinations.
C33_LongestCombinations ==
  (last.op = "getValidTurnMoves" /\ last.pre.config.enforceFullDiceUsage) =>
    onlyTheLongest(last.pre, last.playerId, last.diceValues,
                   getAllValidMoveCombinations(last.pre, last.playerId,
                                               last.diceValues).combinations,
                   last.turnMoves)

\* two dice of which only one can be used: every combination has one move,
\* the maximum, and getValidTurnMoves returns turns of one move
C33_Witness ==
  /\ last.op = "getValidTurnMoves"
  /\ last.pre.config.enforceFullDiceUsage
  /\ Len(last.diceValues) = 2
  /\ Len(last.turnMoves) > 0
  /\ \A i \in 1 .. Len(last.turnMoves) : Len(last.turnMoves[i].moves) = 1

\* validateTurnMove accepts the player's turn with no moves
passAccepted(gameState, playerId, diceValues) ==
  validateTurnMove(gameState, [playerId |-> playerId, diceValues |-> diceValues,
                               moves |-> <<>>]).result

\* a getValidTurnMoves call for a player of the game under enforceFullDiceUsage
turnsAskedFor ==
  /\ last.op = "getValidTurnMoves"
  /\ last.pre.config.enforceFullDiceUsage
  /\ tokensOfPlayer(last.pre, last.playerId) # {}
  /\ Len(last.diceValues) > 0

\* C34: with enforceFullDiceUsage on, for every state, known player and
\* non-empty roll, exactly one of the two holds: validateTurnMove accepts the
\* empty move list, or getValidTurnMoves returns at least one turn.
C34_PassOrPlay ==
  turnsAskedFor =>
    (passAccepted(last.pre, last.playerId, last.diceValues) <=> Len(last.turnMoves) = 0)

\* a roll without a six while every token is Home: no turn, the pass is legal
C34_Witness ==
  /\ turnsAskedFor
  /\ Len(last.turnMoves) = 0
  /\ passAccepted(last.pre, last.playerId, last.diceValues)

\* tokens of the game standing on a ring square
tokensOnSquare(gameState, square) ==
  { t \in allTokens(gameState) :
      t.token.position = square /\ t.token.state = "in-play" }

\* C35: with allowTokenStacking off, in every state reached by applying only
\* turns accepted by validateTurnMove, every ring square holds at most one
\* token, in either capture mode.
C35_OneTokenPerSquare ==
  ~gs.config.allowTokenStacking =>
    \A square \in Ring :
      /\ Len(gs.board[square]) <= 1
      /\ Cardinality(tokensOnSquare(gs, square)) <= 1

\* stacking off: a second turn has been played, it captured, and a token of
\* the player stands on the square of the capture
C35_Witness ==
  /\ ~gs.config.allowTokenStacking
  /\ last.op = "executeTurn"
  /\ nexec >= 2
  /\ last.captured
  /\ \E square \in Ring : Len(gs.board[square]) = 1

\* the token with that id as it is in gameState
sameToken(gameState, token) == tokenAt(gameState, findTokenById(gameState, token.id))

\* ids of the tokens named in the moves of a turn
namedIn(turnMove) == {turnMove.moves[i].tokenId : i \in 1 .. Len(turnMove.moves)}

\* C36: executing a turn accepted by validateTurnMove changes no token of
\* another player except the tokens it captures, which go Home, at most one
\* per move; changes no token of the moving player other than the tokens
\* named in its moves; and leaves currentPlayerIndex, consecutiveSixes,
\* status, winner and config unchanged.
C36_TurnFrame ==
  last.op = "executeTurn" =>
    /\ \A token \in opponentTokens(last.pre, last.turnMove.playerId) :
         \/ sameToken(last.executed, token) = token
         \/ /\ includes(last.capturedTokenIds, token.id)
            /\ sameToken(last.executed, token)
                 = [token EXCEPT !.position = HomePosition, !.state = "home"]
    /\ Len(last.capturedTokenIds) <= Len(last.turnMove.moves)
    /\ \A token \in tokensOfPlayer(last.pre, last.turnMove.playerId) :
         token.id \notin namedIn(last.turnMove) => sameToken(last.executed, token) = token
    /\ last.executed.currentPlayerIndex = last.pre.currentPlayerIndex
    /\ last.executed.consecutiveSixes = last.pre.consecutiveSixes
    /\ last.executed.status = last.pre.status
    /\ last.executed.winner = last.pre.winner
    /\ last.executed.config = last.pre.config

\* a two-move turn that captured a token and moved one token of the player
C36_Witness ==
  /\ last.op = "executeTurn"
  /\ Len(last.turnMove.moves) = 2
  /\ Len(last.capturedTokenIds) = 1
  /\ Cardinality(namedIn(last.turnMove)) = 1
  /\ \E token \in opponentTokens(last.pre, last.turnMove.playerId) :
       token.state = "in-play" /\ sameToken(last.executed, token).state = "home"

\* tokens at position 99 in state finished
finishedTokens(gameState) ==
  { t.token : t \in { u \in allTokens(gameState) :
                        u.token.position = FinishedPosition /\ u.token.state = "finished" } }

\* the finished tokens of before are the same tokens in after
finishedStay(before, after) ==
  \A token \in finishedTokens(before) : sameToken(after, token) = token

\* isValidMove rejects every move of a finished token, whatever the die
finishedCannotMove(gameState) ==
  \A token \in finishedTokens(gameState) : \A steps \in DieFaces :
    ~isValidMove(gameState,
                 [playerId |-> token.playerId, tokenId |-> token.id, steps |-> steps],
                 [values |-> <<steps>>, sum |-> steps, canMoveAgain |-> FALSE,
                  hasValidSix |-> steps = 6])

\* C37: once a token is at position 99 in state finished, no later
\* executeMove, on that token or on any other, validated or not, changes its
\* position or state, and isValidMove rejects every move of it.
C37_FinishedIsAbsorbing ==
  /\ last.op = "executeMove" => finishedStay(last.pre, gs)
  /\ last.op = "executeTurnMove" =>
       \A n \in 0 .. Len(last.turnMove.moves) :
         finishedStay(stateAfter(last.pre, last.turnMove, n), gs)
  /\ finishedCannotMove(gs)

\* an unvalidated turn whose first move finished a token and whose second
\* move was executed on that finished token
C37_Witness ==
  /\ last.op = "executeTurnMove"
  /\ Len(last.turnMove.moves) = 2
  /\ last.movesExecuted = 2
  /\ targetsFinishedToken(last.pre, last.turnMove, 2)
  /\ tokenStateIn(gs, last.turnMove.moves[2].tokenId) = "finished"

\* C38: once checkGameEnd has set winner to some player id, no later
\* operation (a further move, nextTurn, a repeated checkGameEnd) changes
\* winner to a different player.
C38_WinnerIsStable ==
  (last.op # "init" /\ last.pre.winner # NoToken) => gs.winner = last.pre.winner

\* indexes of the players whose status is active
activePlayers(gameState) ==
  {i \in 1 .. Len(gameState.players) : gameState.players[i].status = "active"}

\* C39: after startGame, and after any following sequence of nextTurn calls,
\* exactly one player has status active, namely the player at
\* currentPlayerIndex, and every other player has status waiting.
C39_OneActivePlayer ==
  last.op \in {"startGame", "nextTurn"} =>
    /\ activePlayers(gs) = {gs.currentPlayerIndex + 1}
    /\ \A i \in 1 .. Len(gs.players) :
         i # gs.currentPlayerIndex + 1 => gs.players[i].status = "waiting"

\* the turn has gone to the second player of a game of two
C39_Witness ==
  /\ last.op = "nextTurn"
  /\ Len(gs.players) = 2
  /\ last.pre.currentPlayerIndex = 0
  /\ gs.currentPlayerIndex = 1
  /\ gs.players[2].status = "active"

\* C40: in a game with n players and maxConsecutiveSixes = m >= 1, for any
\* sequence of nextTurn calls with arbitrary extraTurn flags, the turn stays
\* or passes to the next player of the list, and every player has the turn
\* again within at most n * m nextTurn calls.
C40_NoStarvation ==
  last.op = "nextTurn" =>
    /\ gs.currentPlayerIndex \in
         {last.pre.currentPlayerIndex,
          (last.pre.currentPlayerIndex + 1) % Len(gs.players)}
    /\ \A i \in 1 .. Len(gs.players) :
         last.waited[i] < Len(gs.players) * gs.config.maxConsecutiveSixes

\* two players, three sixes allowed: the first player has waited three calls,
\* the longest wait there is, while the second took every extra turn
C40_Witness ==
  /\ last.op = "nextTurn"
  /\ Len(gs.players) = 2
  /\ gs.config.maxConsecutiveSixes = 3
  /\ last.waited[1] = 3
  /\ last.extraTurn

====
